---------------------------- MODULE Spec2Model ----------------------------
(***************************************************************************)
(* Model of the two execution models of the back-testing repository:       *)
(*   - ScaledPositionTracker (src/scaled_backtest.py), the multi-tranche   *)
(*     tracker with partial buys and sells, and                            *)
(*   - Strategy.execute_signal driven by run_backtest (src/strategy.py,    *)
(*     src/backtest.py), the single-position engine.                       *)
(*                                                                         *)
(* Money amounts, prices and fractions are Python floats.  They are        *)
(* modelled as binary floating-point numbers [m, e] of value m * 2^e with  *)
(* a significand of Prec bits, every operation rounding its exact result   *)
(* to the nearest representable value, ties to even, as IEEE-754 does.     *)
(* Python's significand has 53 bits; Prec scales it down so that the       *)
(* values stay within TLC's integers.  Share counts and day numbers are    *)
(* Python ints and are modelled as integers.                               *)
(***************************************************************************)
EXTENDS Integers, Sequences, FiniteSets, TLC

VARIABLES
    tracker,    \* the ScaledPositionTracker object
    tcall,      \* the last buy/sell call on the tracker: its arguments, the
                \* tracker before it and what it returned
    strategy,   \* the Strategy object (cash, initial_capital, position, trades)
    bt,         \* the frame of run_backtest: position in the code, arguments,
                \* the bar being processed and the strategy before that step
    data,       \* the DataFrame handed to the functions that take one: its rows
    run         \* the frame of the call in progress on data, or of the last
                \* call made: arguments, position in the code, what it returned

vars == <<tracker, tcall, strategy, bt, data, run>>

---------------------------------------------------------------------------
(* Bounds of the model *)

\* significand width of the modelled floats (53 in CPython)
Prec == 11

\* number of buy/sell calls made on one tracker
MaxCalls == 3

\* number of bars of the data a back-test runs over
MaxBars == 3

---------------------------------------------------------------------------
(* Floating-point arithmetic *)

Abs(x) == IF x < 0 THEN -x ELSE x

Min(x, y) == IF x < y THEN x ELSE y

\* number of binary digits of a natural number
RECURSIVE Bits(_)
Bits(n) == IF n = 0 THEN 0 ELSE 1 + Bits(n \div 2)

Zero == [m |-> 0, e |-> 0]

\* the unique representation: significand odd, or zero
RECURSIVE Canon(_, _)
Canon(m, e) ==
    IF m = 0 THEN Zero
    ELSE IF m % 2 = 0 THEN Canon(m \div 2, e + 1)
    ELSE [m |-> m, e |-> e]

Neg(a) == [m |-> -a.m, e |-> a.e]

\* (num / den) * 2^e with the quotient rounded to a multiple of 2^k, ties to even
RoundAt(num, den, e, k) ==
    LET n  == IF k < 0 THEN num * 2^(-k) ELSE num
        d  == IF k > 0 THEN den * 2^k ELSE den
        q  == n \div d
        r  == n % d
        up == (2 * r > d) \/ (2 * r = d /\ q % 2 = 1)
    IN  [q |-> q, m |-> IF up THEN q + 1 ELSE q, e |-> e + k]

\* the float nearest to (num / den) * 2^e, for num >= 0 and den > 0
RoundRat(num, den, e) ==
    IF num = 0 THEN Zero
    ELSE LET k0 == Bits(num) - Bits(den) - Prec
             r0 == RoundAt(num, den, e, k0)
             r  == IF Bits(r0.q) > Prec THEN RoundAt(num, den, e, k0 + 1) ELSE r0
         IN  Canon(r.m, r.e)

\* the float nearest to s * 2^e, for any integer s
SRound(s, e) == IF s < 0 THEN Neg(RoundRat(-s, 1, e)) ELSE RoundRat(s, 1, e)

\* int -> float conversion
FromInt(n) == SRound(n, 0)

\* the float a decimal literal num/den denotes
Lit(num, den) == RoundRat(num, den, 0)

\* position of the leading binary digit
Top(a) == a.e + Bits(Abs(a.m))

FAdd(a, b) ==
    IF a.m = 0 THEN b
    ELSE IF b.m = 0 THEN a
    ELSE IF Top(a) - Top(b) > Prec + 2 THEN a
    ELSE IF Top(b) - Top(a) > Prec + 2 THEN b
    ELSE LET e0 == Min(a.e, b.e)
         IN  SRound(a.m * 2^(a.e - e0) + b.m * 2^(b.e - e0), e0)

FSub(a, b) == FAdd(a, Neg(b))

FMul(a, b) == SRound(a.m * b.m, a.e + b.e)

FDiv(a, b) ==
    LET q == RoundRat(Abs(a.m), Abs(b.m), a.e - b.e)
    IN  IF (a.m < 0) = (b.m < 0) THEN q ELSE Neg(q)

\* a < b, decided on the exact values
FLt(a, b) == LET e == Min(a.e, b.e) IN a.m * 2^(a.e - e) < b.m * 2^(b.e - e)

\* a <= b
FLe(a, b) == LET e == Min(a.e, b.e) IN a.m * 2^(a.e - e) <= b.m * 2^(b.e - e)

\* Python's int(x): truncation toward zero
Trunc(a) ==
    IF a.e >= 0 THEN a.m * 2^(a.e)
    ELSE IF -a.e >= Bits(Abs(a.m)) THEN 0
    ELSE LET q == Abs(a.m) \div 2^(-a.e)
         IN  IF a.m < 0 THEN -q ELSE q

Hundred == FromInt(100)

---------------------------------------------------------------------------
(* Inputs *)

\* initial_capital; 10000 is the default of every back-test entry point
InitialCapitals == {FromInt(10000)}

\* close prices, all positive; 33.34375 fills the whole significand
Prices == {FromInt(100), FromInt(120), Lit(1067, 32)}

\* pct_of_cash / pct_of_position / position_size, all within [0, 1]
Fractions == {Zero, Lit(3, 10), Lit(1, 2), FromInt(1)}

---------------------------------------------------------------------------
(* ScaledPositionTracker *)

NewTracker(initial_capital) ==
    [initial_capital |-> initial_capital,
     cash            |-> initial_capital,
     position_shares |-> 0,
     position_cost   |-> Zero,
     trades          |-> <<>>]

\* buy: cash_to_use = cash * pct_of_cash; shares = int(cash_to_use / price)
buy_shares(cash, price, pct_of_cash) == Trunc(FDiv(FMul(cash, pct_of_cash), price))

\* the test off by one: a call that buys nothing is recorded as a trade
has_shares_or_none(shares) == shares >= 0

\* buy: "if shares > 0", the test that decides whether the call trades
has_shares(shares) == shares > 0

\* the dict built before the cash is debited: cash_remaining is the stale cash
buy_trade_stale_cash(date, price, shares, cost, pct_of_cash, position_shares, cash) ==
    [date           |-> date,
     action         |-> "BUY",
     price          |-> price,
     shares         |-> shares,
     cost           |-> cost,
     pct_used       |-> FMul(pct_of_cash, Hundred),
     total_shares   |-> position_shares,
     cash_remaining |-> FAdd(cash, cost)]

\* buy: the dict appended to trades
buy_trade(date, price, shares, cost, pct_of_cash, position_shares, cash) ==
    [date           |-> date,
     action         |-> "BUY",
     price          |-> price,
     shares         |-> shares,
     cost           |-> cost,
     pct_used       |-> FMul(pct_of_cash, Hundred),
     total_shares   |-> position_shares,
     cash_remaining |-> cash]

\* ScaledPositionTracker.buy: the tracker after the call and the value returned
buy(t, date, price, pct_of_cash) ==
    IF FLe(t.cash, Zero) THEN [t |-> t, ret |-> 0]
    ELSE CHOOSE r \in UNION { UNION {
      { IF has_shares(shares)
        THEN [t |-> [t EXCEPT
                      !.cash            = cash1,
                      !.position_shares = t.position_shares + shares,
                      !.position_cost   = FAdd(t.position_cost, cost),
                      !.trades          = Append(t.trades,
                          buy_trade(date, price, shares, cost, pct_of_cash,
                                    t.position_shares + shares, cash1))],
              ret |-> shares]
        ELSE [t |-> t, ret |-> 0] :
          cash1 \in {FSub(t.cash, cost)} } :
        cost \in {FMul(FromInt(shares), price)} } :
      shares \in {buy_shares(t.cash, price, pct_of_cash)} } : TRUE

\* sell: avg_cost_per_share
avg_cost_per_share(position_cost, position_shares) ==
    IF position_shares > 0 THEN FDiv(position_cost, FromInt(position_shares)) ELSE Zero

\* pnl_pct taken over the proceeds instead of the cost of the shares sold
sale_pnl_pct_of_proceeds(pnl, cost_of_shares_sold) ==
    IF FLt(Zero, cost_of_shares_sold)
    THEN FMul(FDiv(pnl, FAdd(cost_of_shares_sold, pnl)), Hundred)
    ELSE Zero

\* sell: pnl_pct of a partial sale
sale_pnl_pct(pnl, cost_of_shares_sold) ==
    IF FLt(Zero, cost_of_shares_sold)
    THEN FMul(FDiv(pnl, cost_of_shares_sold), Hundred)
    ELSE Zero

\* ScaledPositionTracker.sell: the tracker after the call and the value returned
sell(t, date, price, pct_of_position) ==
    IF t.position_shares <= 0 THEN [t |-> t, ret |-> 0]
    ELSE CHOOSE r \in UNION { UNION { UNION {
      { IF shares_to_sell > 0
        THEN [t |-> [t EXCEPT
                      !.cash            = cash1,
                      !.position_shares = t.position_shares - shares_to_sell,
                      !.position_cost   = FSub(t.position_cost, cost_of_shares_sold),
                      !.trades          = Append(t.trades,
                          [date         |-> date,
                           action       |-> "SELL",
                           price        |-> price,
                           shares       |-> shares_to_sell,
                           proceeds     |-> proceeds,
                           pct_sold     |-> FMul(pct_of_position, Hundred),
                           pnl          |-> pnl,
                           pnl_pct      |-> sale_pnl_pct(pnl, cost_of_shares_sold),
                           total_shares |-> t.position_shares - shares_to_sell,
                           cash         |-> cash1])],
              ret |-> shares_to_sell]
        ELSE [t |-> t, ret |-> 0] :
          cash1 \in {FAdd(t.cash, proceeds)} } :
        pnl \in {FSub(proceeds, cost_of_shares_sold)} } :
        proceeds \in {FMul(FromInt(shares_to_sell), price)},
        cost_of_shares_sold \in
          {FMul(FromInt(shares_to_sell),
                avg_cost_per_share(t.position_cost, t.position_shares))} } :
      shares_to_sell \in {Trunc(FMul(FromInt(t.position_shares), pct_of_position))} } : TRUE

NoCall(t) ==
    [op |-> "none", n |-> 0, price |-> Zero, pct |-> Zero, before |-> t, ret |-> 0]

\* a caller invokes tracker.buy(date, price, pct); dates are the call's ordinal
Buy ==
    /\ tcall.n < MaxCalls
    /\ \E price \in Prices, pct \in Fractions :
         LET r == buy(tracker, tcall.n + 1, price, pct)
         IN  /\ tracker' = r.t
             /\ tcall' = [op |-> "buy", n |-> tcall.n + 1, price |-> price,
                          pct |-> pct, before |-> tracker, ret |-> r.ret]
    /\ UNCHANGED <<strategy, bt, data, run>>

\* a caller invokes tracker.sell(date, price, pct)
Sell ==
    /\ tcall.n < MaxCalls
    /\ \E price \in Prices, pct \in Fractions :
         LET r == sell(tracker, tcall.n + 1, price, pct)
         IN  /\ tracker' = r.t
             /\ tcall' = [op |-> "sell", n |-> tcall.n + 1, price |-> price,
                          pct |-> pct, before |-> tracker, ret |-> r.ret]
    /\ UNCHANGED <<strategy, bt, data, run>>

---------------------------------------------------------------------------
(* Strategy and run_backtest *)

None == [none |-> TRUE]

\* Strategy.__init__
NewStrategy ==
    [position |-> None, trades |-> <<>>, cash |-> Zero, initial_capital |-> Zero]

\* Strategy.initialize
initialize(s, initial_capital) ==
    [s EXCEPT !.position = None, !.trades = <<>>, !.cash = initial_capital,
              !.initial_capital = initial_capital]

\* the cost basis of one share only
cost_basis_per_share(p) == p.entry_price

\* Position.cost_basis
cost_basis(p) == FMul(p.entry_price, FromInt(p.shares))

\* Position.unrealized_pnl
unrealized_pnl(p, current_price) ==
    IF p.position_type = "long"
    THEN FMul(FSub(current_price, p.entry_price), FromInt(p.shares))
    ELSE FMul(FSub(p.entry_price, current_price), FromInt(p.shares))

\* Position.unrealized_pnl_pct
unrealized_pnl_pct(p, current_price) ==
    FMul(FDiv(unrealized_pnl(p, current_price), cost_basis(p)), Hundred)

\* the BUY branch without its "position is None" test: BUY pyramids while LONG
can_buy_pyramiding(s, signal) == signal = "BUY"

\* execute_signal: the condition of the BUY branch
can_buy(s, signal) == signal = "BUY" /\ s.position = None

\* execute_signal: the condition of the SELL branch
can_sell(s, signal) == signal = "SELL" /\ s.position # None

\* the share count taken from all of the cash, position_size ignored
entry_shares_all_cash(cash, position_size, price) == Trunc(FDiv(cash, price))

\* execute_signal: shares = int((cash * position_size) / price)
entry_shares(cash, position_size, price) == Trunc(FDiv(FMul(cash, position_size), price))

\* Strategy.execute_signal: the strategy object after the call
execute_signal(s, date, signal, price, position_size) ==
    IF can_buy(s, signal) THEN
      LET shares == entry_shares(s.cash, position_size, price)
          cost   == FMul(FromInt(shares), price)
      IN  IF shares > 0
          THEN [s EXCEPT
                 !.cash     = FSub(s.cash, cost),
                 !.position = [entry_date    |-> date,
                               entry_price   |-> price,
                               shares        |-> shares,
                               position_type |-> "long"],
                 !.trades   = Append(s.trades,
                                [date   |-> date,
                                 action |-> "BUY",
                                 price  |-> price,
                                 shares |-> shares,
                                 value  |-> cost])]
          ELSE s
    ELSE IF can_sell(s, signal) THEN
      LET proceeds == FMul(FromInt(s.position.shares), price)
          pnl      == unrealized_pnl(s.position, price)
          pnl_pct  == unrealized_pnl_pct(s.position, price)
      IN  [s EXCEPT
            !.cash     = FAdd(s.cash, proceeds),
            !.trades   = Append(s.trades,
                           [date      |-> date,
                            action    |-> "SELL",
                            price     |-> price,
                            shares    |-> s.position.shares,
                            value     |-> proceeds,
                            pnl       |-> pnl,
                            pnl_pct   |-> pnl_pct,
                            hold_days |-> date - s.position.entry_date]),
            !.position = None]
    ELSE s

Signals == {"BUY", "SELL", "HOLD"}

\* initial_capital of a back-test: the default, and one below every round price
EngineCapitals == {FromInt(10000), FromInt(50)}

\* position_size of a back-test
PositionSizes == {Lit(1, 2), FromInt(1)}

\* calendar days between two consecutive bars (next day, or over a weekend)
Gaps == {1, 3}

NoRun ==
    [pc |-> "idle", initial_capital |-> Zero, position_size |-> Zero, nbars |-> 0,
     date |-> 0, close |-> Zero, signal |-> "HOLD", before |-> NewStrategy,
     result |-> "none"]

\* run_backtest on an empty DataFrame: the early return
RunEmpty ==
    /\ bt.pc = "idle"
    /\ bt' = [bt EXCEPT !.pc = "done", !.result = "No data provided"]
    /\ UNCHANGED <<strategy, tracker, tcall, data, run>>

\* run_backtest on a non-empty DataFrame, up to the loop over the signals
RunStart ==
    /\ bt.pc = "idle"
    /\ \E c \in EngineCapitals, ps \in PositionSizes :
         /\ strategy' = initialize(strategy, c)
         /\ bt' = [bt EXCEPT !.pc = "loop", !.initial_capital = c,
                              !.position_size = ps, !.before = strategy]
    /\ UNCHANGED <<tracker, tcall, data, run>>

\* one iteration of the loop over signals.items(): the next bar of the data, the
\* signal the strategy computed for it, and execute_signal unless it is HOLD
Bar ==
    /\ bt.pc = "loop"
    /\ bt.nbars < MaxBars
    /\ \E gap \in Gaps, close \in Prices, signal \in Signals :
         LET date == bt.date + gap
         IN  /\ strategy' = IF signal # "HOLD"
                             THEN execute_signal(strategy, date, signal, close,
                                                 bt.position_size)
                             ELSE strategy
             /\ bt' = [bt EXCEPT !.nbars = bt.nbars + 1, !.date = date,
                                  !.close = close, !.signal = signal,
                                  !.before = strategy]
    /\ UNCHANGED <<tracker, tcall, data, run>>

\* the final close forgotten: an open position survives the run
leave_position_open(s, final_date, final_price, position_size) == s

\* run_backtest: "Close any open position at the end"
close_open_position(s, final_date, final_price, position_size) ==
    IF s.position # None
    THEN execute_signal(s, final_date, "SELL", final_price, position_size)
    ELSE s

\* after the loop: close any open position at the final bar, build the results
Finish ==
    /\ bt.pc = "loop"
    /\ bt.nbars >= 1
    /\ strategy' = close_open_position(strategy, bt.date, bt.close, bt.position_size)
    /\ bt' = [bt EXCEPT !.pc = "done", !.before = strategy, !.result = "results"]
    /\ UNCHANGED <<tracker, tcall, data, run>>

---------------------------------------------------------------------------
(* Strategies that keep attributes of their own between calls, and the whole
   of run_backtest on a DataFrame.  The indicator columns a strategy adds to
   the frame (rolling mean, z-score, EMA, ATR, ...) are pandas computations
   over the rows alone, so a row carries them as given values. *)

\* leading rows without a signal: lookback / ema_period of the strategies
Warmup == 1

\* number of run_backtest calls made on one strategy object
MaxRuns == 2

\* MeanReversionStrategy.__init__
MeanReversionStrategy ==
    [position |-> None, trades |-> <<>>, cash |-> Zero, initial_capital |-> Zero,
     name |-> "MeanReversion", lookback |-> Warmup, z_threshold |-> FromInt(2),
     max_hold_days |-> 2, entry_date |-> None]

\* BreakoutStrategy.__init__
BreakoutStrategy ==
    [position |-> None, trades |-> <<>>, cash |-> Zero, initial_capital |-> Zero,
     name |-> "Breakout", lookback |-> Warmup, volume_multiplier |-> FromInt(2),
     profit_target |-> FromInt(5), entry_price |-> None]

\* TrendFollowingStrategy.__init__
TrendFollowingStrategy ==
    [position |-> None, trades |-> <<>>, cash |-> Zero, initial_capital |-> Zero,
     name |-> "TrendFollow", ema_period |-> Warmup, atr_multiplier |-> FromInt(2),
     trailing_stop |-> None]

StatefulStrategies == {MeanReversionStrategy, BreakoutStrategy, TrendFollowingStrategy}

\* rows of a frame as MeanReversionStrategy sees it: oversold with a volume
\* spike, oversold without one, back above the mean, and an undefined z-score
MeanReversionRows ==
    { [close |-> c, z_score |-> z.z, volume |-> z.v, volume_ma |-> FromInt(100)] :
        c \in {FromInt(100), FromInt(120)},
        z \in { [z |-> FromInt(-3), v |-> FromInt(200)],
                [z |-> FromInt(-1), v |-> FromInt(100)],
                [z |-> FromInt(1),  v |-> FromInt(100)],
                [z |-> None,        v |-> FromInt(100)] } }

\* rows of a frame as BreakoutStrategy sees it: a confirmed breakout, a quiet
\* day inside the range, a quiet day at a higher close, a breakdown
BreakoutRows ==
    { [close |-> FromInt(120), high_breakout |-> FromInt(110), low_breakdown |-> FromInt(90),
       volume |-> FromInt(300), volume_ma |-> FromInt(100), rsi |-> FromInt(50)],
      [close |-> FromInt(100), high_breakout |-> FromInt(110), low_breakdown |-> FromInt(90),
       volume |-> FromInt(100), volume_ma |-> FromInt(100), rsi |-> FromInt(50)],
      [close |-> FromInt(120), high_breakout |-> FromInt(130), low_breakdown |-> FromInt(90),
       volume |-> FromInt(100), volume_ma |-> FromInt(100), rsi |-> FromInt(50)],
      [close |-> Lit(1067, 32), high_breakout |-> FromInt(130), low_breakdown |-> FromInt(90),
       volume |-> FromInt(100), volume_ma |-> FromInt(100), rsi |-> FromInt(50)] }

\* rows of a frame as TrendFollowingStrategy sees it
TrendFollowingRows ==
    { [close |-> c, low |-> FSub(c, FromInt(2)), ema |-> e, atr |-> FromInt(5),
       adx |-> FromInt(30)] :
        c \in {FromInt(100), FromInt(120)}, e \in {FromInt(90), FromInt(110)} }

\* the rows a frame handed to the strategy may hold
RowsFor(s) ==
    IF s.name = "MeanReversion" THEN MeanReversionRows
    ELSE IF s.name = "Breakout" THEN BreakoutRows
    ELSE TrendFollowingRows

\* signals = pd.Series(Signal.HOLD, index=data.index)
all_hold(rows) == [k \in 1..Len(rows) |-> "HOLD"]

\* the BUY test of the mean-reversion loop made to depend on entry_date
mean_reversion_buy_once(self, row) ==
    /\ FLt(row.z_score, Neg(self.z_threshold))
    /\ FLt(FMul(Lit(3, 2), row.volume_ma), row.volume)
    /\ self.entry_date = None

\* MeanReversionStrategy.calculate_signals: "BUY: Oversold with volume spike"
mean_reversion_buy(self, row) ==
    /\ FLt(row.z_score, Neg(self.z_threshold))
    /\ FLt(FMul(Lit(3, 2), row.volume_ma), row.volume)

\* MeanReversionStrategy.calculate_signals: the body of its loop for rows[i];
\* acc is the strategy object and the signals assigned so far, and entry_date
\* is None or the date [day |-> d]
mean_reversion_row(acc, rows, i) ==
    LET self == acc.self
        row  == rows[i]
    IN  IF row.z_score = None THEN acc
        ELSE IF mean_reversion_buy(self, row)
        THEN [self    |-> [self EXCEPT !.entry_date = [day |-> row.date]],
              signals |-> [acc.signals EXCEPT ![i] = "BUY"]]
        ELSE IF self.entry_date # None
        THEN LET days_held == row.date - self.entry_date.day
             IN  IF FLt(Zero, row.z_score) \/ days_held >= self.max_hold_days
                 THEN [self    |-> [self EXCEPT !.entry_date = None],
                       signals |-> [acc.signals EXCEPT ![i] = "SELL"]]
                 ELSE acc
        ELSE acc

\* BreakoutStrategy.calculate_signals: the body of its loop for rows[i]
breakout_row(acc, rows, i) ==
    LET self == acc.self
        row  == rows[i]
    IN  IF row.high_breakout = None THEN acc
        ELSE IF /\ FLt(row.high_breakout, row.close)
                /\ FLt(FMul(self.volume_multiplier, row.volume_ma), row.volume)
                /\ FLt(row.rsi, FromInt(70))
        THEN [self    |-> [self EXCEPT !.entry_price = row.close],
              signals |-> [acc.signals EXCEPT ![i] = "BUY"]]
        ELSE IF self.entry_price # None
        THEN LET profit_pct ==
                   FMul(FDiv(FSub(row.close, self.entry_price), self.entry_price), Hundred)
             IN  IF FLt(row.close, row.low_breakdown) \/ FLe(self.profit_target, profit_pct)
                 THEN [self    |-> [self EXCEPT !.entry_price = None],
                       signals |-> [acc.signals EXCEPT ![i] = "SELL"]]
                 ELSE acc
        ELSE acc

\* TrendFollowingStrategy.calculate_signals: the body of its loop for rows[i]
trend_following_row(acc, rows, i) ==
    LET self == acc.self
        row  == rows[i]
        prev == rows[i - 1]
    IN  IF row.adx = None THEN acc
        ELSE IF /\ FLt(row.ema, row.close)
                /\ FLt(FromInt(25), row.adx)
                /\ FLe(prev.close, prev.ema)
        THEN [self    |-> [self EXCEPT !.trailing_stop =
                                  FSub(row.close, FMul(row.atr, self.atr_multiplier))],
              signals |-> [acc.signals EXCEPT ![i] = "BUY"]]
        ELSE IF \E k \in 1..(i - 1) : acc.signals[k] = "BUY"
        THEN LET new_stop == FSub(row.close, FMul(row.atr, self.atr_multiplier))
                 stop     == IF self.trailing_stop = None \/ FLt(self.trailing_stop, new_stop)
                             THEN new_stop
                             ELSE self.trailing_stop
             IN  IF FLt(row.close, row.ema) \/ FLt(row.low, stop)
                 THEN [self    |-> [self EXCEPT !.trailing_stop = None],
                       signals |-> [acc.signals EXCEPT ![i] = "SELL"]]
                 ELSE [self    |-> [self EXCEPT !.trailing_stop = stop],
                       signals |-> acc.signals]
        ELSE acc

\* the body of the loop of the strategy's own calculate_signals
signal_row(acc, rows, i) ==
    IF acc.self.name = "MeanReversion" THEN mean_reversion_row(acc, rows, i)
    ELSE IF acc.self.name = "Breakout" THEN breakout_row(acc, rows, i)
    ELSE trend_following_row(acc, rows, i)

RECURSIVE signal_loop(_, _, _)
\* for i in range(lookback, len(data)), from rows[i] on
signal_loop(acc, rows, i) ==
    IF i > Len(rows) THEN acc
    ELSE signal_loop(CHOOSE a \in {signal_row(acc, rows, i)} : TRUE, rows, i + 1)

\* strategy.calculate_signals(data): the signals, and the object it leaves
calculate_signals(self, rows) ==
    signal_loop([self |-> self, signals |-> all_hold(rows)], rows,
                (IF self.name = "TrendFollow" THEN self.ema_period ELSE self.lookback) + 1)

RECURSIVE execute_signals(_, _, _, _, _)
\* run_backtest: "for date, signal in signals.items()", from rows[i] on
execute_signals(s, rows, signals, i, position_size) ==
    IF i > Len(rows) THEN s
    ELSE execute_signals(
           CHOOSE s1 \in { IF signals[i] # "HOLD"
                           THEN execute_signal(s, rows[i].date, signals[i], rows[i].close,
                                               position_size)
                           ELSE s } : TRUE,
           rows, signals, i + 1, position_size)

\* Strategy.get_portfolio_value
get_portfolio_value(s, current_price) ==
    IF s.position # None
    THEN FAdd(s.cash, FMul(FromInt(s.position.shares), current_price))
    ELSE s.cash

\* [t for t in self.trades if 'pnl' in t]
completed_trades(trades) == SelectSeq(trades, LAMBDA t : "pnl" \in DOMAIN t)

RECURSIVE sum_pnl(_)
\* sum(t['pnl'] for t in ...): left to right, from the integer 0
sum_pnl(trades) ==
    IF trades = <<>> THEN Zero
    ELSE FAdd(sum_pnl(SubSeq(trades, 1, Len(trades) - 1)), trades[Len(trades)].pnl)

RECURSIVE sum_hold_days(_)
\* sum(t['hold_days'] for t in completed_trades)
sum_hold_days(trades) ==
    IF trades = <<>> THEN 0
    ELSE sum_hold_days(SubSeq(trades, 1, Len(trades) - 1)) + trades[Len(trades)].hold_days

\* a summary built even when no trade was made
summary_without_guard(s) ==
    [total_trades |-> 0, winning_trades |-> 0, losing_trades |-> 0,
     total_pnl |-> Zero, total_return_pct |-> Zero]

\* Strategy.get_performance_summary
get_performance_summary(s) ==
    IF s.trades = <<>> THEN [error |-> "No trades executed"]
    ELSE
      LET completed == completed_trades(s.trades)
          winning   == SelectSeq(completed, LAMBDA t : FLt(Zero, t.pnl))
          losing    == SelectSeq(completed, LAMBDA t : FLt(t.pnl, Zero))
          total_pnl == sum_pnl(completed)
          n         == FromInt(Len(completed))
      IN  IF completed = <<>> THEN [error |-> "No completed trades"]
          ELSE [total_trades     |-> Len(completed),
                winning_trades   |-> Len(winning),
                losing_trades    |-> Len(losing),
                win_rate         |-> FMul(FDiv(FromInt(Len(winning)), n), Hundred),
                total_pnl        |-> total_pnl,
                avg_pnl          |-> FDiv(total_pnl, n),
                avg_win          |-> IF winning # <<>>
                                     THEN FDiv(sum_pnl(winning), FromInt(Len(winning)))
                                     ELSE Zero,
                avg_loss         |-> IF losing # <<>>
                                     THEN FDiv(sum_pnl(losing), FromInt(Len(losing)))
                                     ELSE Zero,
                avg_hold_days    |-> FDiv(FromInt(sum_hold_days(completed)), n),
                total_return_pct |-> FMul(FDiv(total_pnl, s.initial_capital), Hundred)]

\* run_backtest: the results dictionary; the keys of the performance summary
\* come last in the literal and override the ones before them
backtest_results(s, rows, initial_capital) ==
    LET first_close      == rows[1].close
        last_close       == rows[Len(rows)].close
        performance      == get_performance_summary(s)
        final_value      == get_portfolio_value(s, last_close)
        buy_hold_shares  == Trunc(FDiv(initial_capital, first_close))
        buy_hold_value   == FMul(FromInt(buy_hold_shares), last_close)
        buy_hold_return  == FMul(FDiv(FSub(buy_hold_value, initial_capital),
                                      initial_capital), Hundred)
        total_return_pct == FMul(FDiv(FSub(final_value, initial_capital),
                                      initial_capital), Hundred)
    IN  performance @@
        [strategy_name       |-> s.name,
         initial_capital     |-> initial_capital,
         final_value         |-> final_value,
         total_return        |-> FSub(final_value, initial_capital),
         total_return_pct    |-> total_return_pct,
         buy_hold_return_pct |-> buy_hold_return,
         alpha               |-> FSub(total_return_pct, buy_hold_return)]

\* the entry of run_backtest with the strategy initialised before data is looked at
enter_initialize_first(s, rows, initial_capital) == initialize(s, initial_capital)

\* run_backtest up to "strategy.initialize(initial_capital)": nothing is touched
\* when data.empty
enter_run_backtest(s, rows, initial_capital) ==
    IF rows = <<>> THEN s ELSE initialize(s, initial_capital)

\* run_backtest(strategy, data, initial_capital, position_size): the strategy
\* object it leaves, the signals it computed and the dictionary it returns
run_backtest(s, rows, initial_capital, position_size) ==
    IF rows = <<>>
    THEN [strategy |-> enter_run_backtest(s, rows, initial_capital), signals |-> <<>>,
          results  |-> [error |-> "No data provided"]]
    ELSE CHOOSE ret \in UNION {
           { [strategy |-> s2, signals |-> sig.signals,
              results  |-> backtest_results(s2, rows, initial_capital)] :
               s2 \in {close_open_position(
                          execute_signals(sig.self, rows, sig.signals, 1, position_size),
                          rows[Len(rows)].date, rows[Len(rows)].close, position_size)} } :
           sig \in {calculate_signals(enter_run_backtest(s, rows, initial_capital), rows)}
         } : TRUE

\* no call of run_backtest has been made on the strategy object
NoBacktest ==
    [pc |-> "idle", op |-> "none", n |-> 0, rows |-> <<>>, initial_capital |-> Zero,
     position_size |-> Zero, before |-> NewStrategy, signals |-> <<>>,
     results |-> [error |-> "none"], prev |-> [n |-> -1]]

\* the frame gets its next row, dated one day after the last one
LoadRow ==
    /\ run.n = 0
    /\ Len(data) < MaxBars
    /\ \E row \in RowsFor(strategy) :
         data' = Append(data, row @@ [date |-> Len(data) + 1])
    /\ UNCHANGED <<strategy, run, bt, tracker, tcall>>

\* a call of run_backtest(strategy, rows, c, ps); prev keeps the call before it
Backtest(rows) ==
    /\ run.n < MaxRuns
    /\ \E c \in InitialCapitals, ps \in PositionSizes :
         \E r \in {run_backtest(strategy, rows, c, ps)} :
           /\ strategy' = r.strategy
           /\ run' = [pc |-> "done", op |-> "run_backtest", n |-> run.n + 1,
                      rows |-> rows, initial_capital |-> c, position_size |-> ps,
                      before |-> strategy, signals |-> r.signals,
                      results |-> r.results,
                      prev |-> [n |-> run.n, rows |-> run.rows,
                                initial_capital |-> run.initial_capital,
                                position_size |-> run.position_size,
                                trades |-> strategy.trades,
                                signals |-> run.signals,
                                results |-> run.results]]
    /\ UNCHANGED <<data, bt, tracker, tcall>>

\* run_backtest is called on the frame
RunOnData == Backtest(data)

\* run_backtest is called on an empty DataFrame
RunOnEmpty == Backtest(<<>>)

\* no function has been called on data
NoCallOnData == [pc |-> "idle", op |-> "none"]

---------------------------------------------------------------------------
(* find_distributed_peaks_troughs.  scipy.signal.find_peaks(x, distance,
   prominence) is modelled by what it documents: the strict local maxima of x
   (the middle sample of a flat top, never the first or the last sample), then
   the distance condition served from the highest peak down, then the
   prominence condition.  Indices are positions in the window, from 0. *)

\* the first sample of the flat top that starts at position i (from 0) and is
\* higher than the sample before it; right_edge is its last sample
RECURSIVE right_edge(_, _)
right_edge(x, i) ==
    IF i + 1 < Len(x) - 1 /\ x[i + 2] = x[i + 1] THEN right_edge(x, i + 1) ELSE i

\* scipy _local_maxima_1d: the positions of the local maxima, ascending
local_maxima(x) ==
    { (l + right_edge(x, l)) \div 2 :
        l \in { i \in 1..(Len(x) - 2) :
                  /\ FLt(x[i], x[i + 1])
                  /\ right_edge(x, i) + 1 <= Len(x) - 1
                  /\ FLt(x[right_edge(x, i) + 2], x[i + 1]) } }

RECURSIVE by_priority(_, _)
\* the positions in S from the highest sample down (np.argsort read from its
\* end; among equal samples the later position comes first)
by_priority(x, S) ==
    IF S = {} THEN <<>>
    ELSE LET top == CHOOSE a \in S : \A b \in S :
                      \/ FLt(x[b + 1], x[a + 1])
                      \/ (x[b + 1] = x[a + 1] /\ b <= a)
         IN  <<top>> \o by_priority(x, S \ {top})

RECURSIVE select_by_distance(_, _, _)
\* scipy _select_by_peak_distance: each peak still kept, taken from the highest
\* down, removes the peaks closer to it than distance
select_by_distance(order, keep, distance) ==
    IF order = <<>> THEN keep
    ELSE LET j == Head(order)
         IN  IF j \notin keep
             THEN select_by_distance(Tail(order), keep, distance)
             ELSE select_by_distance(Tail(order),
                    { k \in keep : k = j \/ Abs(k - j) >= distance }, distance)

RECURSIVE base_min(_, _, _, _)
\* scipy _peak_prominences: the lowest sample met from position i on, walking by
\* step until a sample higher than the peak or the end of x
base_min(x, peak, i, step) ==
    IF i < 0 \/ i > Len(x) - 1 THEN x[peak + 1]
    ELSE IF FLt(x[peak + 1], x[i + 1]) THEN x[peak + 1]
    ELSE LET m == base_min(x, peak, i + step, step)
         IN  IF FLt(x[i + 1], m) THEN x[i + 1] ELSE m

\* scipy peak_prominences: the height of the peak above its higher base
prominence(x, peak) ==
    LET left_min  == base_min(x, peak, peak, -1)
        right_min == base_min(x, peak, peak, 1)
    IN  FSub(x[peak + 1], IF FLt(left_min, right_min) THEN right_min ELSE left_min)

\* find_peaks with the distance condition left out
find_peaks_any_distance(x, distance, min_prominence) ==
    { p \in local_maxima(x) : FLe(min_prominence, prominence(x, p)) }

\* scipy.signal.find_peaks(x, distance=distance, prominence=min_prominence)
find_peaks(x, distance, min_prominence) ==
    { p \in select_by_distance(by_priority(x, local_maxima(x)), local_maxima(x), distance) :
        FLe(min_prominence, prominence(x, p)) }

\* data.tail(lookback): the last lookback rows, all of them when there are fewer
tail(rows, lookback) ==
    IF Len(rows) <= lookback THEN rows
    ELSE SubSeq(rows, Len(rows) - lookback + 1, Len(rows))

\* PeakTrough(date=dates[idx], price=prices[idx], index=idx) for each idx
peak_troughs(window, indices) ==
    { [date |-> window[idx + 1].date, price |-> window[idx + 1].close, index |-> idx] :
        idx \in indices }

RECURSIVE sort_points(_, _)
\* list.sort of PeakTrough objects by "highest" price first, "lowest" price
\* first, or "date"; the sort is stable and the list came in index order
sort_points(points, key) ==
    IF points = {} THEN <<>>
    ELSE LET first == CHOOSE a \in points : \A b \in points \ {a} :
                        IF key = "highest"
                        THEN FLt(b.price, a.price) \/ (b.price = a.price /\ a.index < b.index)
                        ELSE IF key = "lowest"
                        THEN FLt(a.price, b.price) \/ (b.price = a.price /\ a.index < b.index)
                        ELSE a.date < b.date
         IN  <<first>> \o sort_points(points \ {first}, key)

RECURSIVE select_distributed(_, _, _, _)
\* _filter_distributed: "for point in points", selected being the list so far
select_distributed(points, selected, min_distance, num_points) ==
    IF points = <<>> THEN selected
    ELSE LET point         == Head(points)
             is_far_enough == \A k \in 1..Len(selected) :
                                 Abs(point.index - selected[k].index) >= min_distance
             selected1     == IF is_far_enough THEN Append(selected, point) ELSE selected
         IN  IF Len(selected1) >= num_points THEN selected1
             ELSE select_distributed(Tail(points), selected1, min_distance, num_points)

\* _filter_distributed
filter_distributed(points, min_distance, num_points) ==
    IF Len(points) <= num_points THEN points
    ELSE select_distributed(points, <<>>, min_distance, num_points)

\* sequence to set
Range(seq) == { seq[k] : k \in 1..Len(seq) }

\* prominence=0.5 in both find_peaks calls
MinProminence == Lit(1, 2)

\* find_distributed_peaks_troughs(data, lookback, min_distance, num_peaks,
\* num_troughs): the pair of lists it returns
find_distributed_peaks_troughs(rows, lookback, min_distance, num_peaks, num_troughs) ==
    LET window         == tail(rows, lookback)
        prices         == [k \in 1..Len(window) |-> window[k].close]
        negated        == [k \in 1..Len(window) |-> Neg(window[k].close)]
        peak_indices   == find_peaks(prices, min_distance, MinProminence)
        trough_indices == find_peaks(negated, min_distance, MinProminence)
        peaks          == sort_points(peak_troughs(window, peak_indices), "highest")
        troughs        == sort_points(peak_troughs(window, trough_indices), "lowest")
    IN  [peaks   |-> sort_points(Range(filter_distributed(peaks, min_distance, num_peaks)),
                                 "date"),
         troughs |-> sort_points(Range(filter_distributed(troughs, min_distance, num_troughs)),
                                 "date"),
         raw_peaks   |-> peak_indices,
         raw_troughs |-> trough_indices]

\* rows of the window handed to the detector
MaxWindow == 7

\* closing prices of the detector's windows; two of them are 0.25 apart
Closes == {Lit(1067, 32), FromInt(100), Lit(401, 4), FromInt(120)}

\* lookback (the default), min_distance and num_peaks = num_troughs of a call
Lookbacks == {100}

MinDistances == {1, 3, 5}

NumPoints == {0, 1, 3}

\* the window gets its next closing price, dated one day after the last one
LoadClose ==
    /\ Len(data) < MaxWindow
    /\ \E c \in Closes :
         data' = Append(data, [date |-> Len(data) + 1, close |-> c])
    /\ run' = NoCallOnData
    /\ UNCHANGED <<strategy, bt, tracker, tcall>>

\* a call of find_distributed_peaks_troughs on the data
Detect ==
    /\ run.pc = "idle"
    /\ \E lookback \in Lookbacks, min_distance \in MinDistances, num \in NumPoints :
         \E r \in {find_distributed_peaks_troughs(data, lookback, min_distance, num, num)} :
           run' = [pc |-> "done", op |-> "find_distributed_peaks_troughs",
                   lookback |-> lookback, min_distance |-> min_distance,
                   num_peaks |-> num, num_troughs |-> num,
                   window |-> tail(data, lookback),
                   peaks |-> r.peaks, troughs |-> r.troughs,
                   raw_peaks |-> r.raw_peaks, raw_troughs |-> r.raw_troughs]
    /\ UNCHANGED <<data, strategy, bt, tracker, tcall>>

---------------------------------------------------------------------------
(* The time-weighted support and resistance levels, and the production
   strategy that trades on them *)

\* what a division by zero raises
ZeroDivisionError == [raised |-> "ZeroDivisionError"]

\* weight = 1 / (days_ago + 1)
time_weight(last_date, point) ==
    FDiv(FromInt(1), FromInt((last_date - point.date) + 1))

\* peak_weights / trough_weights: the list of (price, weight)
price_weights(points, last_date) ==
    [k \in 1..Len(points) |->
        [price |-> points[k].price, weight |-> time_weight(last_date, points[k])]]

RECURSIVE sum_products(_)
\* sum(p * w for p, w in weights)
sum_products(weights) ==
    IF weights = <<>> THEN Zero
    ELSE FAdd(sum_products(SubSeq(weights, 1, Len(weights) - 1)),
              FMul(weights[Len(weights)].price, weights[Len(weights)].weight))

RECURSIVE sum_weights(_)
\* sum(w for _, w in weights)
sum_weights(weights) ==
    IF weights = <<>> THEN Zero
    ELSE FAdd(sum_weights(SubSeq(weights, 1, Len(weights) - 1)),
              weights[Len(weights)].weight)

\* sum(p * w ...) / sum(w ...)
weighted_mean(weights) ==
    IF sum_weights(weights) = Zero THEN ZeroDivisionError
    ELSE FDiv(sum_products(weights), sum_weights(weights))

\* the sentinel returned only when both lists are empty
no_levels_when_both_empty(peaks, troughs) == peaks = <<>> /\ troughs = <<>>

\* "if not peaks or not troughs"
no_levels(peaks, troughs) == peaks = <<>> \/ troughs = <<>>

\* scaled_backtest.calculate_time_weighted_levels(data, lookback, min_distance):
\* None for (None, None, None, None), else the levels, the extrema and the
\* weights they were given
calculate_time_weighted_levels(rows, lookback, min_distance) ==
    CHOOSE levels \in UNION {
      { IF weights = None THEN None
        ELSE [support        |-> weighted_mean(weights.troughs),
              resistance     |-> weighted_mean(weights.peaks),
              peaks          |-> found.peaks,
              troughs        |-> found.troughs,
              peak_weights   |-> weights.peaks,
              trough_weights |-> weights.troughs] :
          weights \in
            { IF no_levels(found.peaks, found.troughs) THEN None
              ELSE [peaks   |-> price_weights(found.peaks, rows[Len(rows)].date),
                    troughs |-> price_weights(found.troughs, rows[Len(rows)].date)] } } :
      found \in {find_distributed_peaks_troughs(rows, lookback, min_distance, 3, 3)}
    } : TRUE

\* YINNProductionStrategy.__init__
YINNProductionStrategy(lookback, min_distance) ==
    [position |-> None, trades |-> <<>>, cash |-> Zero, initial_capital |-> Zero,
     name |-> "YINN_Production", lookback |-> lookback, min_distance |-> min_distance,
     buy_threshold_pct |-> FromInt(2), sell_threshold_pct |-> FromInt(2)]

\* YINNProductionStrategy.calculate_time_weighted_levels(data)
strategy_time_weighted_levels(self, rows) ==
    CHOOSE levels \in
      { IF found.peaks = <<>> \/ found.troughs = <<>> THEN None
        ELSE [support    |-> weighted_mean(price_weights(found.troughs,
                                                         rows[Len(rows)].date)),
              resistance |-> weighted_mean(price_weights(found.peaks,
                                                         rows[Len(rows)].date)),
              peaks      |-> found.peaks,
              troughs    |-> found.troughs] :
          found \in {find_distributed_peaks_troughs(rows, self.lookback,
                                                    self.min_distance, 3, 3)} } : TRUE

\* ScaledEntryStrategy.__init__
ScaledEntryStrategy(lookback, min_distance) ==
    [position |-> None, trades |-> <<>>, cash |-> Zero, initial_capital |-> Zero,
     name |-> "ScaledEntry", lookback |-> lookback, min_distance |-> min_distance,
     current_position_pct |-> 0, position_cost_basis |-> 0, position_shares |-> 0]

\* ImprovedScaledStrategy.__init__
ImprovedScaledStrategy(lookback, min_distance) ==
    [position |-> None, trades |-> <<>>, cash |-> Zero, initial_capital |-> Zero,
     name |-> "ImprovedScaled", lookback |-> lookback, min_distance |-> min_distance]

\* ScaledEntryStrategy.calculate_time_weighted_levels(data):
\* weight = 1 / (days_ago + 1)
scaled_entry_time_weighted_levels(self, rows) ==
    CHOOSE levels \in
      { IF found.peaks = <<>> \/ found.troughs = <<>> THEN None
        ELSE [support    |-> weighted_mean(price_weights(found.troughs,
                                                         rows[Len(rows)].date)),
              resistance |-> weighted_mean(price_weights(found.peaks,
                                                         rows[Len(rows)].date))] :
          found \in {find_distributed_peaks_troughs(rows, self.lookback,
                                                    self.min_distance, 3, 3)} } : TRUE

\* 1/(last_date - p.date).days + 1: the division is done first, then 1 is added
improved_time_weight(last_date, point) ==
    IF last_date - point.date = 0 THEN ZeroDivisionError
    ELSE FAdd(FDiv(FromInt(1), FromInt(last_date - point.date)), FromInt(1))

\* ImprovedScaledStrategy.calculate_time_weighted_levels(data)
improved_time_weighted_levels(self, rows) ==
    CHOOSE levels \in UNION {
      { IF found.peaks = <<>> \/ found.troughs = <<>> THEN None
        ELSE IF \E k \in 1..Len(found.peaks) :
                  peak_weights[k].weight = ZeroDivisionError
             THEN ZeroDivisionError
        ELSE IF \E k \in 1..Len(found.troughs) :
                  trough_weights[k].weight = ZeroDivisionError
             THEN ZeroDivisionError
        ELSE [support    |-> weighted_mean(trough_weights),
              resistance |-> weighted_mean(peak_weights)] :
          peak_weights \in
            { [k \in 1..Len(found.peaks) |->
                 [price  |-> found.peaks[k].price,
                  weight |-> improved_time_weight(rows[Len(rows)].date,
                                                  found.peaks[k])]] },
          trough_weights \in
            { [k \in 1..Len(found.troughs) |->
                 [price  |-> found.troughs[k].price,
                  weight |-> improved_time_weight(rows[Len(rows)].date,
                                                  found.troughs[k])]] } } :
      found \in {find_distributed_peaks_troughs(rows, self.lookback,
                                                self.min_distance, 3, 3)}
    } : TRUE

\* support * (1 + self.buy_threshold_pct / 100)
buy_threshold(self, support) ==
    FMul(support, FAdd(FromInt(1), FDiv(self.buy_threshold_pct, Hundred)))

\* resistance * (1 - self.sell_threshold_pct / 100)
sell_threshold(self, resistance) ==
    FMul(resistance, FSub(FromInt(1), FDiv(self.sell_threshold_pct, Hundred)))

\* the levels taken from the whole frame, the rows after bar i included
whole_data(rows, i) == rows

\* historical_data = data.iloc[:i]
historical_data(rows, i) == SubSeq(rows, 1, i)

\* the signal of bar i with the sell test ahead of the buy test
production_signal_sell_first(self, rows, i) ==
    CHOOSE signal \in
      { IF levels = None THEN "HOLD"
        ELSE IF FLe(sell_threshold(self, levels.resistance), rows[i + 1].close) THEN "SELL"
        ELSE IF FLe(rows[i + 1].close, buy_threshold(self, levels.support)) THEN "BUY"
        ELSE "HOLD" :
          levels \in {strategy_time_weighted_levels(self, historical_data(rows, i))} } : TRUE

\* YINNProductionStrategy.calculate_signals: the signal of bar i (from 0) in the
\* loop "for i in range(start_idx, len(data))"
production_signal(self, rows, i) ==
    CHOOSE signal \in
      { IF levels = None THEN "HOLD"
        ELSE IF FLe(rows[i + 1].close, buy_threshold(self, levels.support)) THEN "BUY"
        ELSE IF FLe(sell_threshold(self, levels.resistance), rows[i + 1].close) THEN "SELL"
        ELSE "HOLD" :
          levels \in {strategy_time_weighted_levels(self, historical_data(rows, i))} } : TRUE

\* YINNProductionStrategy.calculate_signals
production_signals(self, rows) ==
    [k \in 1..Len(rows) |->
        IF k - 1 >= self.lookback THEN production_signal(self, rows, k - 1) ELSE "HOLD"]

\* a division of numpy floats by zero gives inf or nan, not an exception
NotFinite == [inf_or_nan |-> TRUE]

\* "STRONG" already at the level itself
buy_strength_at_level(current_price, support) ==
    IF FLe(current_price, support) THEN "STRONG" ELSE "MODERATE"

\* signal_strength = "STRONG" if current_price < support else "MODERATE"
buy_strength(current_price, support) ==
    IF FLt(current_price, support) THEN "STRONG" ELSE "MODERATE"

\* signal_strength = "STRONG" if current_price > resistance else "MODERATE"
sell_strength(current_price, resistance) ==
    IF FLt(resistance, current_price) THEN "STRONG" ELSE "MODERATE"

\* YINNProductionStrategy.get_current_signal
get_current_signal(self, rows) ==
    IF Len(rows) < self.lookback THEN [error |-> "Insufficient data"]
    ELSE CHOOSE report \in
      { IF levels = None THEN [error |-> "Could not calculate levels"]
        ELSE
          LET support       == levels.support
              resistance    == levels.resistance
              current_price == rows[Len(rows)].close
              range_width   == FSub(resistance, support)
          IN  CHOOSE r \in
                { LET signal == IF FLe(current_price, buy_at) THEN "BUY"
                                ELSE IF FLe(sell_at, current_price) THEN "SELL"
                                ELSE "HOLD"
                  IN  [date            |-> rows[Len(rows)].date,
                       current_price   |-> current_price,
                       signal          |-> signal,
                       signal_strength |-> IF signal = "BUY"
                                           THEN buy_strength(current_price, support)
                                           ELSE IF signal = "SELL"
                                           THEN sell_strength(current_price, resistance)
                                           ELSE "NEUTRAL",
                       support         |-> support,
                       resistance      |-> resistance,
                       buy_threshold   |-> buy_at,
                       sell_threshold  |-> sell_at,
                       range_width     |-> range_width,
                       position_in_range_pct |->
                           IF range_width = Zero THEN NotFinite
                           ELSE FMul(FDiv(FSub(current_price, support), range_width),
                                     Hundred),
                       upside_potential  |-> FSub(resistance, current_price),
                       downside_risk     |-> FSub(current_price, support),
                       risk_reward_ratio |->
                           IF signal = "BUY" /\ FLt(Zero, FSub(current_price, support))
                           THEN FDiv(FSub(resistance, current_price),
                                     FSub(current_price, support))
                           ELSE Zero,
                       peaks           |-> levels.peaks,
                       troughs         |-> levels.troughs,
                       lookback_days   |-> self.lookback] :
                    buy_at  \in {buy_threshold(self, support)},
                    sell_at \in {sell_threshold(self, resistance)} } : TRUE :
          levels \in {strategy_time_weighted_levels(self, rows)} } : TRUE

\* rows of the frame the levels are computed from
MaxRows == 6

\* lookback and min_distance handed to the functions (60 and 5 by default)
LevelLookbacks == {4, 6}

LevelDistances == {2, 5}

\* the frame gets its next row, dated one day after the last one
LoadBar ==
    /\ Len(data) < MaxRows
    /\ \E c \in Closes :
         data' = Append(data, [date |-> Len(data) + 1, close |-> c])
    /\ run' = NoCallOnData
    /\ UNCHANGED <<strategy, bt, tracker, tcall>>

\* a call of calculate_time_weighted_levels(data, lookback, min_distance)
Levels ==
    /\ run.pc = "idle"
    /\ \E lookback \in LevelLookbacks, min_distance \in LevelDistances :
         \E r \in {calculate_time_weighted_levels(data, lookback, min_distance)},
            f \in {find_distributed_peaks_troughs(data, lookback, min_distance, 3, 3)} :
           run' = [pc |-> "done", op |-> "calculate_time_weighted_levels",
                   lookback |-> lookback, min_distance |-> min_distance,
                   peaks |-> f.peaks, troughs |-> f.troughs, result |-> r]
    /\ UNCHANGED <<data, strategy, bt, tracker, tcall>>

\* a call of strategy.calculate_signals(data) on the production strategy
ProductionSignals ==
    /\ run.pc = "idle"
    /\ \E sig \in {production_signals(strategy, data)} :
         run' = [pc |-> "done", op |-> "calculate_signals", signals |-> sig]
    /\ UNCHANGED <<data, strategy, bt, tracker, tcall>>

\* a call of strategy.get_current_signal(data)
CurrentSignal ==
    /\ run.pc = "idle"
    /\ \E r \in {get_current_signal(strategy, data)} :
         run' = [pc |-> "done", op |-> "get_current_signal", result |-> r]
    /\ UNCHANGED <<data, strategy, bt, tracker, tcall>>

\* the frame of a snapshot query gets its next row: closes that rise from
\* 96 / 104 to 183 / 184, dated one day apart
LoadSnapshotBar ==
    /\ Len(data) < MaxRows
    /\ \E c \in {FromInt(96), FromInt(104), FromInt(183), FromInt(184)} :
         data' = Append(data, [date |-> Len(data) + 1, close |-> c])
    /\ run' = NoCallOnData
    /\ UNCHANGED <<strategy, bt, tracker, tcall>>

\* a call of calculate_time_weighted_levels(data) on one of the three
\* strategies that carry the estimator as a method
StrategyLevels ==
    /\ run.pc = "idle"
    /\ \E lookback \in LevelLookbacks, min_distance \in LevelDistances :
         \/ \E r \in {strategy_time_weighted_levels(
                         YINNProductionStrategy(lookback, min_distance), data)} :
              run' = [pc |-> "done", op |-> "strategy_levels",
                      estimator |-> "YINN_Production", lookback |-> lookback,
                      min_distance |-> min_distance,
                      result |-> IF r = None THEN None
                                 ELSE [support |-> r.support,
                                       resistance |-> r.resistance]]
         \/ \E r \in {scaled_entry_time_weighted_levels(
                         ScaledEntryStrategy(lookback, min_distance), data)} :
              run' = [pc |-> "done", op |-> "strategy_levels",
                      estimator |-> "ScaledEntry", lookback |-> lookback,
                      min_distance |-> min_distance, result |-> r]
         \/ \E r \in {improved_time_weighted_levels(
                         ImprovedScaledStrategy(lookback, min_distance), data)} :
              run' = [pc |-> "done", op |-> "strategy_levels",
                      estimator |-> "ImprovedScaled", lookback |-> lookback,
                      min_distance |-> min_distance, result |-> r]
    /\ UNCHANGED <<data, strategy, bt, tracker, tcall>>

---------------------------------------------------------------------------
(* The tracker-based back-tests: run_scaled_backtest and
   aggressive_dca_backtest *)

\* what data.index[k] and data.iloc[k] raise when k is not a row of the frame
IndexError(expr) == [raised |-> "IndexError", expr |-> expr]

\* ScaledPositionTracker.get_portfolio_value
tracker_portfolio_value(t, current_price) ==
    IF t.position_shares > 0
    THEN FAdd(t.cash, FMul(FromInt(t.position_shares), current_price))
    ELSE t.cash

\* {80: False, 90: False, 100: False}
NoLevelHit == [level \in {80, 90, 100} |-> FALSE]

\* the branch taken in the buying chain: tracker.buy, and the level marked as
\* hit inside "if shares > 0 and verbose"
scaled_buy_level(t, hit, date, price, pct_of_cash, level, verbose) ==
    CHOOSE out \in
      { [tracker |-> r.t,
         hit     |-> IF r.ret > 0 /\ verbose THEN [hit EXCEPT ![level] = TRUE] ELSE hit] :
          r \in {buy(t, date, price, pct_of_cash)} } : TRUE

\* run_scaled_backtest: the buying chain of one bar; level is the branch of
\* the if / elif chain that is taken, 0 for none
scaled_buying(t, hit, date, price, position_pct, verbose) ==
    LET level == IF FLe(position_pct, FromInt(20)) /\ ~hit[80] THEN 80
                 ELSE IF FLe(position_pct, FromInt(10)) /\ ~hit[90] THEN 90
                 ELSE IF FLe(position_pct, FromInt(2)) /\ ~hit[100] THEN 100
                 ELSE 0
    IN  IF level = 0 THEN [tracker |-> t, hit |-> hit]
        ELSE scaled_buy_level(t, hit, date, price,
                              IF level = 100 THEN FromInt(1) ELSE Lit(3, 10),
                              level, verbose)

\* the branch taken in the selling chain; the third level resets the dict
\* after marking itself
scaled_sell_level(t, hit, date, price, pct_of_position, level, verbose) ==
    CHOOSE out \in
      { [tracker |-> r.t,
         hit     |-> IF r.ret > 0 /\ verbose
                     THEN IF level = 100 THEN NoLevelHit ELSE [hit EXCEPT ![level] = TRUE]
                     ELSE hit] :
          r \in {sell(t, date, price, pct_of_position)} } : TRUE

\* run_scaled_backtest: the selling chain of one bar, entered with a position
scaled_selling(t, hit, date, price, position_pct, verbose) ==
    LET level == IF t.position_shares <= 0 THEN 0
                 ELSE IF FLe(FromInt(80), position_pct) /\ ~hit[80] THEN 80
                 ELSE IF FLe(FromInt(90), position_pct) /\ ~hit[90] THEN 90
                 ELSE IF FLe(FromInt(98), position_pct) /\ ~hit[100] THEN 100
                 ELSE 0
    IN  IF level = 0 THEN [tracker |-> t, hit |-> hit]
        ELSE scaled_sell_level(t, hit, date, price,
                               IF level = 100 THEN FromInt(1) ELSE Lit(3, 10),
                               level, verbose)

\* run_scaled_backtest: the buying and the selling logic of one bar
scaled_trading(st, date, price, position_pct, verbose) ==
    CHOOSE next \in UNION {
      { [tracker         |-> sold.tracker,
         buy_levels_hit  |-> bought.hit,
         sell_levels_hit |-> sold.hit] :
          sold \in {scaled_selling(bought.tracker, st.sell_levels_hit, date, price,
                                   position_pct, verbose)} } :
      bought \in {scaled_buying(st.tracker,
                                IF st.tracker.position_shares = 0
                                THEN NoLevelHit ELSE st.buy_levels_hit,
                                date, price, position_pct, verbose)} } : TRUE

\* run_scaled_backtest: the body of "for i in range(start_idx, len(data))",
\* i counted from 0
scaled_bar(st, rows, i, lookback, verbose) ==
    CHOOSE next \in
      { IF levels = None THEN st
        ELSE IF ~FLt(Zero, FSub(levels.resistance, levels.support)) THEN st
        ELSE scaled_trading(st, rows[i + 1].date, rows[i + 1].close,
                            FMul(FDiv(FSub(rows[i + 1].close, levels.support),
                                      FSub(levels.resistance, levels.support)),
                                 Hundred),
                            verbose) :
          levels \in {calculate_time_weighted_levels(historical_data(rows, i),
                                                     lookback, 5)} } : TRUE

RECURSIVE scaled_loop(_, _, _, _, _)
\* the state after the bars start_idx .. n - 1
scaled_loop(st, rows, n, lookback, verbose) ==
    IF n <= lookback THEN st
    ELSE scaled_bar(scaled_loop(st, rows, n - 1, lookback, verbose),
                    rows, n - 1, lookback, verbose)

\* buy_hold_shares = int(initial_capital / first close); buy_hold_final =
\* buy_hold_shares * final_price;
\* ((buy_hold_final - initial_capital) / initial_capital) * 100
buy_hold_return(initial_capital, first_close, final_price) ==
    FMul(FDiv(FSub(FMul(FromInt(Trunc(FDiv(initial_capital, first_close))), final_price),
                   initial_capital),
              initial_capital),
         Hundred)

\* len([t for t in tracker.trades if t['action'] == action])
count_trades(trades, action) ==
    Cardinality({k \in 1..Len(trades) : trades[k].action = action})

\* the keys the results dictionaries of both back-tests share
tracker_results(initial_capital, final_value, buy_hold, trades) ==
    [initial_capital     |-> initial_capital,
     final_value         |-> final_value,
     total_return        |-> FSub(final_value, initial_capital),
     total_return_pct    |-> FMul(FDiv(FSub(final_value, initial_capital),
                                       initial_capital), Hundred),
     buy_hold_return_pct |-> buy_hold,
     alpha               |-> FSub(FMul(FDiv(FSub(final_value, initial_capital),
                                            initial_capital), Hundred),
                                  buy_hold),
     buys                |-> count_trades(trades, "BUY"),
     sells               |-> count_trades(trades, "SELL")]

\* run_scaled_backtest(data, initial_capital, lookback, verbose): what is raised,
\* or the pair (results, tracker) returned
run_scaled_backtest(rows, initial_capital, lookback, verbose) ==
    IF verbose /\ lookback >= Len(rows) THEN IndexError("data.index[start_idx]")
    ELSE IF rows = <<>> THEN IndexError("data.iloc[-1]")
    ELSE IF lookback >= Len(rows) THEN IndexError("data.iloc[start_idx]")
    ELSE CHOOSE returned \in
      { [results |->
           tracker_results(initial_capital,
                           tracker_portfolio_value(st.tracker, rows[Len(rows)].close),
                           buy_hold_return(initial_capital, rows[lookback + 1].close,
                                           rows[Len(rows)].close),
                           st.tracker.trades)
           @@ [total_trades |-> Len(st.tracker.trades)],
         tracker |-> st.tracker] :
          st \in {scaled_loop([tracker         |-> NewTracker(initial_capital),
                               buy_levels_hit  |-> NoLevelHit,
                               sell_levels_hit |-> NoLevelHit],
                              rows, Len(rows), lookback, verbose)} } : TRUE

\* {'main': False, 'below': False, 'bounce': False}
NoBuyLevel == [main |-> FALSE, below |-> FALSE, bounce |-> FALSE]

\* the tracking step without the reset of the flags
dca_tracking_keeping_flags(st, current_price) ==
    IF st.tracker.position_shares = 0
    THEN [st EXCEPT !.entry_price = None,
                    !.lowest_price = None]
    ELSE IF st.tracker.position_shares > 0
            /\ (st.lowest_price = None \/ FLt(current_price, st.lowest_price))
    THEN [st EXCEPT !.lowest_price = current_price]
    ELSE st

\* aggressive_dca_backtest: the reset without a position, and the lowest
\* price since entry
dca_tracking(st, current_price) ==
    IF st.tracker.position_shares = 0
    THEN [st EXCEPT !.buy_levels = NoBuyLevel,
                    !.entry_price = None,
                    !.lowest_price = None]
    ELSE IF st.tracker.position_shares > 0
            /\ (st.lowest_price = None \/ FLt(current_price, st.lowest_price))
    THEN [st EXCEPT !.lowest_price = current_price]
    ELSE st

\* aggressive_dca_backtest: the buying chain of one bar; branch is the one of
\* the if / elif chain that is taken, and its flag is set whether or not shares
\* were bought
dca_buying(st, date, price, support) ==
    LET branch ==
          IF FLe(price, FMul(support, Lit(102, 100))) /\ ~st.buy_levels.main
          THEN "main"
          ELSE IF FLt(price, FMul(support, Lit(95, 100)))
                  /\ st.buy_levels.main /\ ~st.buy_levels.below
          THEN "below"
          ELSE IF st.lowest_price # None
                  /\ FLt(FMul(st.lowest_price, Lit(103, 100)), price)
                  /\ st.buy_levels.main /\ ~st.buy_levels.bounce
          THEN "bounce"
          ELSE "none"
    IN  IF branch = "none" THEN st
        ELSE [st EXCEPT
                !.tracker = buy(st.tracker, date, price,
                                IF branch = "bounce" THEN FromInt(1) ELSE Lit(1, 2)).t,
                !.buy_levels[branch] = TRUE,
                !.entry_price  = IF branch = "main" THEN price ELSE @,
                !.lowest_price = IF branch = "main" THEN price ELSE @]

\* aggressive_dca_backtest: the body of the loop, i counted from 0
dca_bar(st, rows, i, lookback) ==
    CHOOSE next \in UNION {
      { IF /\ levels # None
           /\ bought.tracker.position_shares > 0
           /\ FLe(FMul(levels.resistance, Lit(98, 100)), rows[i + 1].close)
        THEN [bought EXCEPT !.tracker =
                 sell(bought.tracker, rows[i + 1].date, rows[i + 1].close, FromInt(1)).t]
        ELSE bought :
          bought \in { IF levels = None THEN st
                       ELSE dca_buying(dca_tracking(st, rows[i + 1].close),
                                       rows[i + 1].date, rows[i + 1].close,
                                       levels.support) } } :
      levels \in {calculate_time_weighted_levels(historical_data(rows, i),
                                                 lookback, 5)} } : TRUE

RECURSIVE dca_loop(_, _, _, _)
\* the state after the bars start_idx .. n - 1
dca_loop(st, rows, n, lookback) ==
    IF n <= lookback THEN st
    ELSE dca_bar(dca_loop(st, rows, n - 1, lookback), rows, n - 1, lookback)

\* aggressive_dca_backtest(data, initial_capital, lookback, verbose): what is
\* raised, or the pair (results, tracker) returned; verbose only prints
aggressive_dca_backtest(rows, initial_capital, lookback, verbose) ==
    IF rows = <<>> THEN IndexError("data.iloc[-1]")
    ELSE IF lookback >= Len(rows) THEN IndexError("data.iloc[start_idx]")
    ELSE CHOOSE returned \in
      { [results |->
           tracker_results(initial_capital,
                           tracker_portfolio_value(st.tracker, rows[Len(rows)].close),
                           buy_hold_return(initial_capital, rows[lookback + 1].close,
                                           rows[Len(rows)].close),
                           st.tracker.trades)
           @@ [name |-> "Aggressive DCA", trades |-> Len(st.tracker.trades)],
         tracker |-> st.tracker] :
          st \in {dca_loop([tracker      |-> NewTracker(initial_capital),
                            buy_levels   |-> NoBuyLevel,
                            entry_price  |-> None,
                            lowest_price |-> None],
                           rows, Len(rows), lookback)} } : TRUE

\* optimized_scaled.py: the loop state of scaled_v1_tight_around_support,
\* scaled_v2_support_only and scaled_v3_smart_dca before the first bar
NewVariantState(variant, initial_capital) ==
    [tracker      |-> NewTracker(initial_capital),
     buy_levels   |-> [f \in (CASE variant = "v1" -> {"at_support", "below", "bounce"}
                               [] variant = "v2" -> {"first", "drop", "bounce"}
                               [] variant = "v3" -> {"early", "support", "below"})
                         |-> FALSE],
     sell_levels  |-> [at_resistance |-> FALSE, above |-> FALSE, partial |-> FALSE],
     lowest_price |-> None,
     entry_price  |-> None]

\* the taken branch of a buy chain: tracker.buy with its share of the cash,
\* and the flag of the branch, set whether or not shares were bought
variant_buy(st, date, price, branch, pct_of_cash) ==
    IF branch = "none" THEN st
    ELSE [st EXCEPT !.tracker = buy(st.tracker, date, price, pct_of_cash).t,
                    !.buy_levels[branch] = TRUE]

\* scaled_v1_tight_around_support: the tracking of the lowest price and the
\* buy chain of one bar
v1_buying(st, date, price, support) ==
    CHOOSE bought \in UNION {
      { IF branch = "at_support"
        THEN [variant_buy(tracked, date, price, branch, Lit(1, 2))
                EXCEPT !.lowest_price = price]
        ELSE variant_buy(tracked, date, price, branch,
                         IF branch = "bounce" THEN FromInt(1) ELSE Lit(1, 2)) :
          branch \in
            { IF FLe(price, FMul(support, Lit(102, 100))) /\ ~tracked.buy_levels.at_support
              THEN "at_support"
              ELSE IF FLt(price, FMul(support, Lit(97, 100))) /\ ~tracked.buy_levels.below
              THEN "below"
              ELSE IF tracked.lowest_price # None
                      /\ FLt(FMul(tracked.lowest_price, Lit(102, 100)), price)
                      /\ ~tracked.buy_levels.bounce /\ tracked.buy_levels.at_support
              THEN "bounce"
              ELSE "none" } } :
      tracked \in
        { IF st.tracker.position_shares = 0
          THEN [st EXCEPT !.lowest_price = None,
                          !.buy_levels = [f \in DOMAIN @ |-> FALSE]]
          ELSE IF st.lowest_price = None \/ FLt(price, st.lowest_price)
          THEN [st EXCEPT !.lowest_price = price]
          ELSE st } } : TRUE

\* scaled_v1_tight_around_support: the sell chain of one bar; the third
\* level resets the dict after marking itself
v1_selling(st, date, price, resistance) ==
    LET branch ==
          IF st.tracker.position_shares <= 0 THEN "none"
          ELSE IF FLe(FMul(resistance, Lit(98, 100)), price) /\ ~st.sell_levels.at_resistance
          THEN "at_resistance"
          ELSE IF FLe(FMul(resistance, Lit(90, 100)), price)
                  /\ FLt(price, FMul(resistance, Lit(98, 100)))
                  /\ ~st.sell_levels.partial
          THEN "partial"
          ELSE IF FLt(FMul(resistance, Lit(103, 100)), price) /\ ~st.sell_levels.above
          THEN "above"
          ELSE "none"
    IN  IF branch = "none" THEN st
        ELSE [st EXCEPT
                !.tracker = sell(st.tracker, date, price,
                                 IF branch = "at_resistance" THEN Lit(1, 2)
                                 ELSE IF branch = "partial" THEN Lit(3, 10)
                                 ELSE FromInt(1)).t,
                !.sell_levels = IF branch = "above"
                                THEN [f \in DOMAIN @ |-> FALSE]
                                ELSE [@ EXCEPT ![branch] = TRUE]]

\* scaled_v2_support_only: the reset without a position and the buy chain of
\* one bar
v2_buying(st, date, price, support) ==
    CHOOSE bought \in UNION {
      { IF branch = "first"
        THEN [variant_buy(reset, date, price, branch, Lit(4, 10))
                EXCEPT !.entry_price = price]
        ELSE variant_buy(reset, date, price, branch,
                         IF branch = "bounce" THEN FromInt(1) ELSE Lit(1, 2)) :
          branch \in
            { IF FLe(price, FMul(support, Lit(101, 100))) /\ ~reset.buy_levels.first
              THEN "first"
              ELSE IF FLt(price, FMul(support, Lit(97, 100)))
                      /\ reset.buy_levels.first /\ ~reset.buy_levels.drop
              THEN "drop"
              ELSE IF reset.entry_price # None
                      /\ FLt(FMul(reset.entry_price, Lit(105, 100)), price)
                      /\ reset.buy_levels.first /\ ~reset.buy_levels.bounce
              THEN "bounce"
              ELSE "none" } } :
      reset \in
        { IF st.tracker.position_shares = 0
          THEN [st EXCEPT !.entry_price = None,
                          !.buy_levels = [f \in DOMAIN @ |-> FALSE]]
          ELSE st } } : TRUE

\* scaled_v3_smart_dca: the reset without a position and the buy chain of one
\* bar
v3_buying(st, date, price, support) ==
    CHOOSE bought \in UNION {
      { variant_buy(reset, date, price, branch,
                    IF branch = "early" THEN Lit(33, 100)
                    ELSE IF branch = "support" THEN Lit(1, 2)
                    ELSE FromInt(1)) :
          branch \in
            { IF /\ FLe(price, FMul(support, Lit(105, 100)))
                 /\ FLt(FMul(support, Lit(101, 100)), price)
                 /\ ~reset.buy_levels.early
              THEN "early"
              ELSE IF /\ FLe(price, FMul(support, Lit(101, 100)))
                      /\ FLe(FMul(support, Lit(97, 100)), price)
                      /\ ~reset.buy_levels.support
              THEN "support"
              ELSE IF FLt(price, FMul(support, Lit(95, 100))) /\ ~reset.buy_levels.below
              THEN "below"
              ELSE "none" } } :
      reset \in
        { IF st.tracker.position_shares = 0
          THEN [st EXCEPT !.buy_levels = [f \in DOMAIN @ |-> FALSE]]
          ELSE st } } : TRUE

\* scaled_v2_support_only and scaled_v3_smart_dca: the whole position is sold
\* at resistance
sell_all_at_resistance(st, date, price, resistance) ==
    IF st.tracker.position_shares > 0 /\ FLe(FMul(resistance, Lit(98, 100)), price)
    THEN [st EXCEPT !.tracker = sell(st.tracker, date, price, FromInt(1)).t]
    ELSE st

\* the body of the loop of the three variants, i counted from 0
variant_bar(variant, st, rows, i, lookback) ==
    CHOOSE next \in UNION {
      { IF levels = None THEN st
        ELSE IF variant = "v1"
        THEN v1_selling(bought, rows[i + 1].date, rows[i + 1].close, levels.resistance)
        ELSE sell_all_at_resistance(bought, rows[i + 1].date, rows[i + 1].close,
                                    levels.resistance) :
          bought \in
            { IF levels = None THEN st
              ELSE CASE variant = "v1" ->
                          v1_buying(st, rows[i + 1].date, rows[i + 1].close, levels.support)
                     [] variant = "v2" ->
                          v2_buying(st, rows[i + 1].date, rows[i + 1].close, levels.support)
                     [] variant = "v3" ->
                          v3_buying(st, rows[i + 1].date, rows[i + 1].close, levels.support)
            } } :
      levels \in {calculate_time_weighted_levels(historical_data(rows, i),
                                                 lookback, 5)} } : TRUE

RECURSIVE variant_loop(_, _, _, _, _)
\* the state after the bars start_idx .. n - 1
variant_loop(variant, st, rows, n, lookback) ==
    IF n <= lookback THEN st
    ELSE variant_bar(variant, variant_loop(variant, st, rows, n - 1, lookback),
                     rows, n - 1, lookback)

\* scaled_v1_tight_around_support / scaled_v2_support_only /
\* scaled_v3_smart_dca (data, initial_capital, lookback): what is raised, or
\* the pair (results, tracker) returned
scaled_variant(variant, rows, initial_capital, lookback) ==
    IF rows = <<>> THEN IndexError("data.iloc[-1]")
    ELSE CHOOSE returned \in UNION {
      { [results |->
           [name        |-> CASE variant = "v1" -> "Tight Scaling"
                              [] variant = "v2" -> "Support Only"
                              [] variant = "v3" -> "Smart DCA",
            final_value |-> final_value,
            return_pct  |-> FMul(FDiv(FSub(final_value, initial_capital),
                                      initial_capital), Hundred),
            trades      |-> Len(st.tracker.trades)],
         tracker |-> st.tracker] :
          final_value \in {tracker_portfolio_value(st.tracker, rows[Len(rows)].close)} } :
      st \in {variant_loop(variant, NewVariantState(variant, initial_capital),
                           rows, Len(rows), lookback)} } : TRUE

\* rows of the frame handed to the tracker-based back-tests
MaxScaledRows == 7

\* closes of that frame: 101.5 lies 1/8 of the way from 100 to 112, 100 and
\* 101.5 are within 2% of each other, and 112 is more than 3% above both
ScaledCloses == {FromInt(100), Lit(203, 2), FromInt(112)}

\* the frame gets its next row, dated one day after the last one
LoadScaledBar ==
    /\ Len(data) < MaxScaledRows
    /\ \E c \in ScaledCloses :
         data' = Append(data, [date |-> Len(data) + 1, close |-> c])
    /\ run' = NoCallOnData
    /\ UNCHANGED <<strategy, bt, tracker, tcall>>

\* a call of run_scaled_backtest(data, initial_capital, lookback, verbose)
RunScaled ==
    /\ run.pc = "idle"
    /\ \E c \in InitialCapitals, lookback \in LevelLookbacks, verbose \in BOOLEAN :
         \E r \in {run_scaled_backtest(data, c, lookback, verbose)} :
           run' = [pc |-> "done", op |-> "run_scaled_backtest",
                   initial_capital |-> c, lookback |-> lookback, verbose |-> verbose,
                   outcome |-> r]
    /\ UNCHANGED <<data, strategy, bt, tracker, tcall>>

\* a call of aggressive_dca_backtest(data, initial_capital, lookback, verbose)
RunAggressiveDca ==
    /\ run.pc = "idle"
    /\ \E c \in InitialCapitals, lookback \in LevelLookbacks, verbose \in BOOLEAN :
         \E r \in {aggressive_dca_backtest(data, c, lookback, verbose)} :
           run' = [pc |-> "done", op |-> "aggressive_dca_backtest",
                   initial_capital |-> c, lookback |-> lookback, verbose |-> verbose,
                   outcome |-> r]
    /\ UNCHANGED <<data, strategy, bt, tracker, tcall>>

\* entries of the list handed to _filter_distributed directly
MaxPoints == 3

\* largest index of an entry of that list
MaxIndex == 5

\* the ranked list gets its next entry: a point of the window not in the
\* list yet, ranked below the entries it already has
RankPoint ==
    /\ run.pc = "idle"
    /\ Len(data) < MaxPoints
    /\ \E index \in 0..MaxIndex :
         /\ \A k \in 1..Len(data) : data[k].index # index
         /\ data' = Append(data, [index |-> index, date |-> index + 1,
                                  price |-> FromInt(120 - Len(data))])
    /\ UNCHANGED <<run, strategy, bt, tracker, tcall>>

\* a call of _filter_distributed(points, min_distance, num_points) on the list
FilterDistributed ==
    /\ run.pc = "idle"
    /\ \E min_distance \in MinDistances, num_points \in NumPoints :
         run' = [pc |-> "done", op |-> "_filter_distributed",
                 min_distance |-> min_distance, num_points |-> num_points,
                 result |-> filter_distributed(data, min_distance, num_points)]
    /\ UNCHANGED <<data, strategy, bt, tracker, tcall>>

\* a call of one of the three variants of optimized_scaled.py
RunVariant ==
    /\ run.pc = "idle"
    /\ \E variant \in {"v1", "v2", "v3"}, c \in InitialCapitals,
          lookback \in LevelLookbacks :
         \E r \in {scaled_variant(variant, data, c, lookback)} :
           run' = [pc |-> "done", op |-> "scaled_variant", variant |-> variant,
                   initial_capital |-> c, lookback |-> lookback, outcome |-> r]
    /\ UNCHANGED <<data, strategy, bt, tracker, tcall>>

---------------------------------------------------------------------------
(* Specifications *)

InitTracker ==
    /\ \E c \in InitialCapitals :
         /\ tracker = NewTracker(c)
         /\ tcall = NoCall(NewTracker(c))
    /\ strategy = NewStrategy
    /\ bt = NoRun
    /\ data = <<>>
    /\ run = NoCallOnData

NextTracker == Buy \/ Sell

SpecTracker == InitTracker /\ [][NextTracker]_vars

InitEngine ==
    /\ strategy = NewStrategy
    /\ bt = NoRun
    /\ tracker = NewTracker(Zero)
    /\ tcall = NoCall(NewTracker(Zero))
    /\ data = <<>>
    /\ run = NoCallOnData

NextEngine == RunEmpty \/ RunStart \/ Bar \/ Finish

SpecEngine == InitEngine /\ [][NextEngine]_vars

InitBacktest ==
    /\ strategy \in StatefulStrategies
    /\ data = <<>>
    /\ run = NoBacktest
    /\ bt = NoRun
    /\ tracker = NewTracker(Zero)
    /\ tcall = NoCall(NewTracker(Zero))

NextBacktest == LoadRow \/ RunOnData \/ RunOnEmpty

SpecBacktest == InitBacktest /\ [][NextBacktest]_vars

InitDetector ==
    /\ data = <<>>
    /\ run = NoCallOnData
    /\ strategy = NewStrategy
    /\ bt = NoRun
    /\ tracker = NewTracker(Zero)
    /\ tcall = NoCall(NewTracker(Zero))

NextDetector == LoadClose \/ Detect

SpecDetector == InitDetector /\ [][NextDetector]_vars

InitLevels ==
    /\ data = <<>>
    /\ run = NoCallOnData
    /\ \E lookback \in LevelLookbacks : strategy = YINNProductionStrategy(lookback, 2)
    /\ bt = NoRun
    /\ tracker = NewTracker(Zero)
    /\ tcall = NoCall(NewTracker(Zero))

NextLevels == LoadBar \/ Levels \/ StrategyLevels \/ ProductionSignals \/ CurrentSignal

SpecLevels == InitLevels /\ [][NextLevels]_vars

InitSnapshot ==
    /\ data = <<>>
    /\ run = NoCallOnData
    /\ \E lookback \in LevelLookbacks : strategy = YINNProductionStrategy(lookback, 1)
    /\ bt = NoRun
    /\ tracker = NewTracker(Zero)
    /\ tcall = NoCall(NewTracker(Zero))

NextSnapshot == LoadSnapshotBar \/ CurrentSignal

SpecSnapshot == InitSnapshot /\ [][NextSnapshot]_vars

InitScaled ==
    /\ data = <<>>
    /\ run = NoCallOnData
    /\ strategy = YINNProductionStrategy(4, 5)
    /\ bt = NoRun
    /\ tracker = NewTracker(Zero)
    /\ tcall = NoCall(NewTracker(Zero))

NextScaled ==
    LoadScaledBar \/ RunScaled \/ RunAggressiveDca \/ RunVariant \/ ProductionSignals

SpecScaled == InitScaled /\ [][NextScaled]_vars

InitFilter ==
    /\ data = <<>>
    /\ run = NoCallOnData
    /\ strategy = NewStrategy
    /\ bt = NoRun
    /\ tracker = NewTracker(Zero)
    /\ tcall = NoCall(NewTracker(Zero))

NextFilter == RankPoint \/ FilterDistributed

SpecFilter == InitFilter /\ [][NextFilter]_vars

---------------------------------------------------------------------------
(* Claims about the ScaledPositionTracker *)

Last(seq) == seq[Len(seq)]

\* the last step was a call of tracker.buy / tracker.sell
BuyCalled == tcall.op = "buy"

SellCalled == tcall.op = "sell"

\* position_cost / position_shares, the average cost per share held
AverageCost(t) == FDiv(t.position_cost, FromInt(t.position_shares))

\* C2: cash and share counts are never negative, in the tracker and in the
\* single-position engine, and an open Position holds at least one share.
C2_NeverNegative ==
    /\ ~FLt(tracker.cash, Zero)
    /\ tracker.position_shares >= 0
    /\ ~FLt(strategy.cash, Zero)
    /\ strategy.position # None => strategy.position.shares >= 1

\* C3: position_cost is 0 exactly when position_shares is 0.
C3_CostZeroIffNoShares ==
    (tracker.position_cost = Zero) <=> (tracker.position_shares = 0)

\* the example of C4: cash 10000, buy at 100 with 0.5, then sell at 120 with 1.0
C4_ExampleRun ==
    /\ tracker.initial_capital = FromInt(10000)
    /\ Len(tracker.trades) = 2
    /\ tracker.trades[1].action = "BUY"
    /\ tracker.trades[1].price = FromInt(100)
    /\ tracker.trades[1].pct_used = FromInt(50)
    /\ tracker.trades[2].action = "SELL"
    /\ tracker.trades[2].price = FromInt(120)
    /\ tracker.trades[2].pct_sold = FromInt(100)

C4_ExampleResult ==
    /\ tracker.trades[1].shares = 50
    /\ tracker.trades[2].shares = 50
    /\ tracker.trades[2].proceeds = FromInt(6000)
    /\ tracker.trades[2].pnl = FromInt(1000)
    /\ tracker.trades[2].pnl_pct = FromInt(20)
    /\ tracker.cash = FromInt(11000)
    /\ tracker.position_shares = 0

\* C4: a sell with position_shares > 0 and n = floor(position_shares * f) >= 1
\* returns n, credits cash by n*price, takes n off position_shares and
\* n*(position_cost/position_shares) off position_cost, and appends exactly one
\* SELL trade with pnl = n*price - n*avg_cost and pnl_pct = pnl/(n*avg_cost)*100
\* (0 when that cost is 0); the example run ends with 50 shares sold, pnl 1000,
\* pnl_pct 20, cash 11000 and no shares.
C4_SellAccounting ==
    LET t0       == tcall.before
        n        == Trunc(FMul(FromInt(t0.position_shares), tcall.pct))
        proceeds == FMul(FromInt(n), tcall.price)
        sold     == FMul(FromInt(n), AverageCost(t0))
        pnl      == FSub(proceeds, sold)
        trade    == Last(tracker.trades)
    IN  /\ (SellCalled /\ t0.position_shares > 0 /\ n >= 1) =>
              /\ tcall.ret = n
              /\ tracker.cash = FAdd(t0.cash, proceeds)
              /\ tracker.position_shares = t0.position_shares - n
              /\ tracker.position_cost = FSub(t0.position_cost, sold)
              /\ Len(tracker.trades) = Len(t0.trades) + 1
              /\ SubSeq(tracker.trades, 1, Len(t0.trades)) = t0.trades
              /\ trade.action = "SELL"
              /\ trade.shares = n
              /\ trade.pnl = pnl
              /\ trade.pnl_pct = (IF sold = Zero THEN Zero
                                   ELSE FMul(FDiv(pnl, sold), Hundred))
        /\ C4_ExampleRun => C4_ExampleResult

\* C4 witness: the example run has been made and the sell was the last call
C4_Witness == C4_ExampleRun /\ SellCalled /\ tcall.ret = 50

\* C5: a buy with cash > 0 and n = floor(cash * f / price) >= 1 returns n, debits
\* cash by n*price, adds n to position_shares and n*price to position_cost, and
\* appends exactly one BUY trade whose total_shares and cash_remaining are the
\* tracker's position_shares and cash after the call.
C5_BuyAccounting ==
    LET t0    == tcall.before
        n     == Trunc(FDiv(FMul(t0.cash, tcall.pct), tcall.price))
        cost  == FMul(FromInt(n), tcall.price)
        trade == Last(tracker.trades)
    IN  (BuyCalled /\ FLt(Zero, t0.cash) /\ n >= 1) =>
          /\ tcall.ret = n
          /\ tracker.cash = FSub(t0.cash, cost)
          /\ tracker.position_shares = t0.position_shares + n
          /\ tracker.position_cost = FAdd(t0.position_cost, cost)
          /\ Len(tracker.trades) = Len(t0.trades) + 1
          /\ SubSeq(tracker.trades, 1, Len(t0.trades)) = t0.trades
          /\ trade.action = "BUY"
          /\ trade.shares = n
          /\ trade.total_shares = tracker.position_shares
          /\ trade.cash_remaining = tracker.cash

\* C5 witness: a second buy has traded, so the totals differ from the trade's own
C5_Witness ==
    /\ BuyCalled
    /\ tcall.ret >= 1
    /\ Len(tracker.trades) = 2
    /\ tracker.trades[1].action = "BUY"
    /\ Last(tracker.trades).total_shares > Last(tracker.trades).shares

\* C6: a call that cannot trade returns 0 and changes nothing: buy when cash <= 0
\* or the computed share count is < 1, sell when position_shares <= 0 or the
\* computed share count is < 1.
C6_NoOpFrame ==
    LET t0 == tcall.before
        nb == Trunc(FDiv(FMul(t0.cash, tcall.pct), tcall.price))
        ns == Trunc(FMul(FromInt(t0.position_shares), tcall.pct))
    IN  /\ (BuyCalled /\ (FLe(t0.cash, Zero) \/ nb < 1)) =>
              (tcall.ret = 0 /\ tracker = t0)
        /\ (SellCalled /\ (t0.position_shares <= 0 \/ ns < 1)) =>
              (tcall.ret = 0 /\ tracker = t0)

\* C6 witness: a buy was refused on a tracker that had spent all of its cash
C6_Witness ==
    /\ BuyCalled
    /\ tcall.ret = 0
    /\ tracker.cash = Zero
    /\ tracker.position_shares > 0

\* C7: a partial sell that leaves shares does not change position_cost /
\* position_shares.
C7_AverageCostKept ==
    (SellCalled /\ tcall.ret > 0 /\ tracker.position_shares > 0) =>
        AverageCost(tracker) = AverageCost(tcall.before)

---------------------------------------------------------------------------
(* Claims about the single-position engine *)

\* the last step of run_backtest appended one trade with this action
Recorded(action) ==
    /\ Len(strategy.trades) = Len(bt.before.trades) + 1
    /\ Last(strategy.trades).action = action

Alternates(trades) ==
    \A i \in 1..Len(trades) :
        trades[i].action = (IF i % 2 = 1 THEN "BUY" ELSE "SELL")

\* C1: whatever signals run_backtest feeds to execute_signal, the ledger reads
\* BUY, SELL, BUY, SELL, ... from its first entry on, a step that records a SELL
\* starts with an open position (never while FLAT), and a step that records a
\* BUY starts FLAT.
C1_LedgerAlternates ==
    /\ Alternates(strategy.trades)
    /\ Recorded("SELL") => bt.before.position # None
    /\ Recorded("BUY") => bt.before.position = None

\* C1 witness: a BUY signal arrived on a later bar than the entry and was ignored
C1_Witness ==
    /\ bt.pc = "loop"
    /\ bt.signal = "BUY"
    /\ strategy.position # None
    /\ strategy.position.entry_date < bt.date
    /\ Len(strategy.trades) = 1

\* the last step was an iteration of the loop of run_backtest
BarProcessed == bt.pc = "loop" /\ bt.nbars >= 1

\* run_backtest has returned its results for a non-empty data series
Returned == bt.pc = "done" /\ bt.result = "results"

\* the trade a SELL of the whole position records
ClosingTrade(position, date, price) ==
    LET pnl == FMul(FSub(price, position.entry_price), FromInt(position.shares))
        invested == FMul(position.entry_price, FromInt(position.shares))
    IN  [date      |-> date,
         action    |-> "SELL",
         price     |-> price,
         shares    |-> position.shares,
         value     |-> FMul(FromInt(position.shares), price),
         pnl       |-> pnl,
         pnl_pct   |-> FMul(FDiv(pnl, invested), Hundred),
         hold_days |-> date - position.entry_date]

\* C8: when run_backtest returns on a non-empty series the position is None; a
\* position left open by the last signal is closed by exactly one more SELL trade
\* at the final bar's date and close, with the fields of any other SELL;
\* otherwise nothing is appended.
C8_ForcedClose ==
    LET s0 == bt.before
    IN  Returned =>
          /\ strategy.position = None
          /\ IF s0.position # None
             THEN /\ strategy.trades =
                       Append(s0.trades, ClosingTrade(s0.position, bt.date, bt.close))
                  /\ strategy.cash =
                       FAdd(s0.cash, FMul(FromInt(s0.position.shares), bt.close))
             ELSE strategy = s0

\* C8 witness: run_backtest returned after closing a position held over the
\* final bars
C8_Witness ==
    /\ Returned
    /\ bt.before.position # None
    /\ Len(strategy.trades) = 2
    /\ Last(strategy.trades).date = bt.date
    /\ Last(strategy.trades).hold_days > 0

\* C9: BUY while FLAT computes shares = floor(cash * position_size / price); with
\* shares >= 1 cash is debited by shares*price, a long Position with the bar's
\* date, the price and the share count is opened and one BUY trade is appended;
\* with shares < 1 cash, position and ledger are unchanged.
C9_BuyWhileFlat ==
    LET s0     == bt.before
        shares == Trunc(FDiv(FMul(s0.cash, bt.position_size), bt.close))
        cost   == FMul(FromInt(shares), bt.close)
    IN  (BarProcessed /\ bt.signal = "BUY" /\ s0.position = None) =>
          IF shares >= 1
          THEN /\ strategy.cash = FSub(s0.cash, cost)
               /\ strategy.position = [entry_date |-> bt.date, entry_price |-> bt.close,
                                        shares |-> shares, position_type |-> "long"]
               /\ strategy.trades = Append(s0.trades,
                                       [date |-> bt.date, action |-> "BUY",
                                        price |-> bt.close, shares |-> shares,
                                        value |-> cost])
          ELSE /\ strategy = s0
               /\ strategy.position = None

\* C9 witness: a BUY executed with half of the cash
C9_Witness ==
    /\ BarProcessed
    /\ bt.signal = "BUY"
    /\ bt.before.position = None
    /\ bt.position_size = Lit(1, 2)
    /\ strategy.position # None
    /\ strategy.position.shares = 50

\* C9 witness of the other case: a BUY that could not afford one share
C9_WitnessFlat ==
    /\ BarProcessed
    /\ bt.signal = "BUY"
    /\ strategy.position = None
    /\ strategy.trades = <<>>
    /\ FLt(Zero, strategy.cash)

\* the last step executed a SELL signal while LONG
SoldWhileLong == BarProcessed /\ bt.signal = "SELL" /\ bt.before.position # None

\* what C10 says of every SELL but its pnl
C10_SellFrame ==
    LET s0   == bt.before
        pos  == s0.position
        sold == Last(strategy.trades)
    IN  /\ strategy.position = None
        /\ strategy.cash = FAdd(s0.cash, FMul(FromInt(pos.shares), bt.close))
        /\ Len(strategy.trades) = Len(s0.trades) + 1
        /\ SubSeq(strategy.trades, 1, Len(s0.trades)) = s0.trades
        /\ sold.action = "SELL"
        /\ sold.shares = pos.shares
        /\ sold.pnl_pct =
             FMul(FDiv(sold.pnl, FMul(pos.entry_price, FromInt(pos.shares))), Hundred)
        /\ sold.hold_days = bt.date - pos.entry_date
        /\ sold.hold_days >= 0

---------------------------------------------------------------------------
(* Claims about run_backtest called again on the same strategy object *)

\* run_backtest has returned from a call on the strategy object
BacktestReturned == run.op = "run_backtest" /\ run.pc = "done"

\* the last two calls were made with the same frame and the same arguments
SameCallTwice ==
    /\ BacktestReturned
    /\ run.n >= 2
    /\ run.prev.rows = run.rows
    /\ run.prev.initial_capital = run.initial_capital
    /\ run.prev.position_size = run.position_size

\* C11: two calls of run_backtest in succession on the same strategy object,
\* with the same data, initial_capital and position_size, leave the same trade
\* ledger and return the same results, whatever the first call left in the
\* attributes the strategy keeps (entry_date, entry_price, trailing_stop).
C11_RerunIdentical ==
    SameCallTwice =>
      /\ strategy.trades = run.prev.trades
      /\ run.results = run.prev.results

\* a mean-reversion strategy is run again while entry_date is still set from the
\* first run: the second run computes other signals and yet trades the same
C11_Witness ==
    /\ SameCallTwice
    /\ strategy.name = "MeanReversion"
    /\ run.before.entry_date # None
    /\ run.signals # run.prev.signals
    /\ strategy.trades # <<>>

\* C12: run_backtest on a frame without rows returns the error result at once:
\* the strategy object (cash, initial_capital, position, trades and its own
\* attributes) is the one before the call, no signal has been computed.
C12_EmptyDataUntouched ==
    (BacktestReturned /\ run.rows = <<>>) =>
      /\ run.results = [error |-> "No data provided"]
      /\ run.signals = <<>>
      /\ strategy = run.before

\* the empty frame is handed over with a strategy that has traded before
C12_Witness ==
    /\ BacktestReturned
    /\ run.rows = <<>>
    /\ run.before.trades # <<>>
    /\ run.before.cash # run.before.initial_capital

\* the strategy computed HOLD for every row of a frame with rows
OnlyHold ==
    /\ BacktestReturned
    /\ run.rows # <<>>
    /\ \A i \in 1..Len(run.signals) : run.signals[i] = "HOLD"

\* C13: when every signal is HOLD, run_backtest leaves the ledger empty and the
\* cash at initial_capital, reports final_value = initial_capital, and the
\* performance part of the results is the error "No trades executed", without
\* total_trades or win_rate.
C13_HoldOnly ==
    OnlyHold =>
      /\ strategy.trades = <<>>
      /\ strategy.position = None
      /\ strategy.cash = run.initial_capital
      /\ run.results.final_value = run.initial_capital
      /\ run.results.total_return = Zero
      /\ "error" \in DOMAIN run.results
      /\ run.results.error = "No trades executed"
      /\ "total_trades" \notin DOMAIN run.results
      /\ "win_rate" \notin DOMAIN run.results

\* a HOLD-only run over several rows whose closes differ
C13_Witness ==
    /\ OnlyHold
    /\ Len(run.rows) = MaxBars
    /\ run.rows[1].close # run.rows[MaxBars].close


---------------------------------------------------------------------------
(* Claims about find_distributed_peaks_troughs *)

\* find_distributed_peaks_troughs has returned
Detected == run.op = "find_distributed_peaks_troughs"

\* the closing prices of the window the call looked at, and their negation
WindowPrices == [k \in 1..Len(run.window) |-> run.window[k].close]

NegatedPrices == [k \in 1..Len(run.window) |-> Neg(run.window[k].close)]

\* no two points of the list are closer than min_distance window indices
Distributed(points) ==
    \A i, j \in 1..Len(points) :
        i # j => Abs(points[i].index - points[j].index) >= run.min_distance

\* of two local maxima of x closer than min_distance, the lower is not returned
LowerDropped(x, points) ==
    \A a, b \in local_maxima(x) :
        (Abs(a - b) < run.min_distance /\ FLt(x[a + 1], x[b + 1]))
            => \A k \in 1..Len(points) : points[k].index # a

\* a lower local maximum is returned next to a higher one only when that one is
\* not returned and has a local maximum at least as high within min_distance
LowerOnlyWithoutHigher(x, points) ==
    \A a, b \in local_maxima(x) :
        ( /\ Abs(a - b) < run.min_distance
          /\ FLt(x[a + 1], x[b + 1])
          /\ \E k \in 1..Len(points) : points[k].index = a )
            => /\ \A k \in 1..Len(points) : points[k].index # b
               /\ \E c \in local_maxima(x) \ {b} :
                     Abs(c - b) < run.min_distance /\ FLe(x[b + 1], x[c + 1])

\* C16 as stated: returned peaks (troughs) are at least min_distance apart, and
\* of two local maxima (minima) closer than that only the higher (lower) one
\* is retained.
C16_OnlyHigherRetained ==
    Detected =>
      /\ Distributed(run.peaks) /\ Distributed(run.troughs)
      /\ LowerDropped(WindowPrices, run.peaks)
      /\ LowerDropped(NegatedPrices, run.troughs)

\* C16 amended: returned peaks (troughs) are at least min_distance apart; of two
\* local maxima closer than that the two are never both returned, and the lower
\* one is returned only when the higher one gave way to a local maximum at
\* least as high within min_distance of it.
C16_Distributed ==
    Detected =>
      /\ Distributed(run.peaks) /\ Distributed(run.troughs)
      /\ LowerOnlyWithoutHigher(WindowPrices, run.peaks)
      /\ LowerOnlyWithoutHigher(NegatedPrices, run.troughs)

\* two local maxima 2 apart with min_distance 5: only the higher one is returned
C16_Witness ==
    /\ Detected
    /\ run.min_distance = 5
    /\ run.num_peaks = 3
    /\ \E a, b \in local_maxima(WindowPrices) :
         /\ b - a = 2
         /\ FLt(WindowPrices[a + 1], WindowPrices[b + 1])
         /\ Len(run.peaks) = 1
         /\ run.peaks[1].index = b

\* C17: at most num_peaks peaks and num_troughs troughs come back, each list in
\* ascending date order; all the raw extrema come back when there are no more
\* than requested, and none when there are none.
C17_AtMostRequested ==
    Detected =>
      /\ Len(run.peaks) <= run.num_peaks
      /\ Len(run.troughs) <= run.num_troughs
      /\ \A i, j \in 1..Len(run.peaks) : i < j => run.peaks[i].date < run.peaks[j].date
      /\ \A i, j \in 1..Len(run.troughs) : i < j => run.troughs[i].date < run.troughs[j].date
      /\ Cardinality(run.raw_peaks) <= run.num_peaks
            => {run.peaks[k].index : k \in 1..Len(run.peaks)} = run.raw_peaks
      /\ Cardinality(run.raw_troughs) <= run.num_troughs
            => {run.troughs[k].index : k \in 1..Len(run.troughs)} = run.raw_troughs


---------------------------------------------------------------------------
(* Claims about the levels and the production strategy *)

\* calculate_signals of the production strategy has returned
SignalsComputed == run.op = "calculate_signals"

\* the extrema the strategy finds in the rows before bar i (from 0)
HistoryExtrema(i) ==
    find_distributed_peaks_troughs(SubSeq(data, 1, i), strategy.lookback,
                                   strategy.min_distance, 3, 3)

\* C15: the signal of bar i is the one calculate_signals computes for that bar on
\* any shorter frame that still holds bars 0..i, so no bar after i has a part in
\* it; it is the close of bar i set against the levels of the bars before i;
\* bars below lookback are HOLD, and so are bars whose history has no peak or
\* no trough.
C15_NoLookahead ==
    SignalsComputed =>
      /\ \A k \in 1..Len(data) :
           \A i \in 1..k :
             production_signals(strategy, SubSeq(data, 1, k))[i] = run.signals[i]
      /\ \A i \in 1..Len(data) :
           /\ i - 1 < strategy.lookback => run.signals[i] = "HOLD"
           /\ (HistoryExtrema(i - 1).peaks = <<>> \/ HistoryExtrema(i - 1).troughs = <<>>)
                => run.signals[i] = "HOLD"

\* a bar that is not the last one got BUY or SELL, and the bars after it differ
\* from it in their close
C15_Witness ==
    /\ SignalsComputed
    /\ Len(data) = MaxRows
    /\ run.signals[MaxRows - 1] # "HOLD"
    /\ data[MaxRows].close # data[MaxRows - 1].close

\* calculate_time_weighted_levels has returned
LevelsComputed == run.op = "calculate_time_weighted_levels"

\* level lies between the lowest and the highest price of the points
WithinPrices(level, points) ==
    /\ \E k \in 1..Len(points) : FLe(points[k].price, level)
    /\ \E k \in 1..Len(points) : FLe(level, points[k].price)

\* C18: with peaks and troughs found, resistance lies within the lowest and the
\* highest peak price, and support within the lowest and the highest trough
\* price.
C18_LevelsWithinExtrema ==
    (LevelsComputed /\ run.result # None) =>
      /\ WithinPrices(run.result.resistance, run.result.peaks)
      /\ WithinPrices(run.result.support, run.result.troughs)

\* C19: the estimator returns the None sentinel when there is no peak or no
\* trough and computes no weight then; otherwise every point is days_ago >= 0
\* old, every weight and both weight sums are above zero and no division by
\* zero is raised; calculate_signals leaves a bar at HOLD on the sentinel.
C19_NoDivisionByZero ==
    /\ LevelsComputed =>
         IF run.peaks = <<>> \/ run.troughs = <<>>
         THEN run.result = None
         ELSE /\ run.result # None
              /\ run.result.support # ZeroDivisionError
              /\ run.result.resistance # ZeroDivisionError
              /\ \A k \in 1..Len(run.result.peaks) :
                    /\ data[Len(data)].date - run.result.peaks[k].date >= 0
                    /\ FLt(Zero, run.result.peak_weights[k].weight)
              /\ \A k \in 1..Len(run.result.troughs) :
                    /\ data[Len(data)].date - run.result.troughs[k].date >= 0
                    /\ FLt(Zero, run.result.trough_weights[k].weight)
              /\ FLt(Zero, sum_weights(run.result.peak_weights))
              /\ FLt(Zero, sum_weights(run.result.trough_weights))
    /\ SignalsComputed =>
         \A i \in 1..Len(data) :
           strategy_time_weighted_levels(strategy, SubSeq(data, 1, i - 1)) = None
             => run.signals[i] = "HOLD"

\* levels from two peaks and two troughs of different ages
C19_Witness ==
    /\ LevelsComputed
    /\ run.result # None
    /\ Len(run.result.peaks) = 2
    /\ Len(run.result.troughs) = 2

\* only one kind of extremum was found: the sentinel comes back
C19_WitnessSentinel ==
    /\ LevelsComputed
    /\ run.peaks # <<>>
    /\ run.troughs = <<>>
    /\ run.result = None

\* get_current_signal has returned a signal
SignalReported == run.op = "get_current_signal" /\ "signal" \in DOMAIN run.result

\* close <= support * (1 + buy_threshold_pct / 100)
AtBuyThreshold ==
    FLe(run.result.current_price,
        FMul(run.result.support, FAdd(FromInt(1), FDiv(strategy.buy_threshold_pct, Hundred))))

\* close >= resistance * (1 - sell_threshold_pct / 100)
AtSellThreshold ==
    FLe(FMul(run.result.resistance,
             FSub(FromInt(1), FDiv(strategy.sell_threshold_pct, Hundred))),
        run.result.current_price)

\* C20: get_current_signal reports BUY when close <= support * (1 +
\* buy_threshold_pct/100), otherwise SELL when close >= resistance * (1 -
\* sell_threshold_pct/100), otherwise HOLD; the strength is STRONG exactly when
\* the close is beyond the level (below support for BUY, above resistance for
\* SELL), MODERATE for the other BUY and SELL, NEUTRAL for HOLD; the
\* risk_reward_ratio is (resistance - close) / (close - support) for a BUY with
\* close > support and 0 otherwise.
C20_CurrentSignal ==
    SignalReported =>
      LET r     == run.result
          close == r.current_price
      IN  /\ close = data[Len(data)].close
          /\ r.signal = (IF AtBuyThreshold THEN "BUY"
                         ELSE IF AtSellThreshold THEN "SELL" ELSE "HOLD")
          /\ r.signal_strength = "STRONG"
               <=> \/ (r.signal = "BUY" /\ FLt(close, r.support))
                   \/ (r.signal = "SELL" /\ FLt(r.resistance, close))
          /\ r.signal_strength = "MODERATE"
               <=> \/ (r.signal = "BUY" /\ ~FLt(close, r.support))
                   \/ (r.signal = "SELL" /\ ~FLt(r.resistance, close))
          /\ r.signal_strength = "NEUTRAL" <=> r.signal = "HOLD"
          /\ r.risk_reward_ratio =
               (IF r.signal = "BUY" /\ FLt(r.support, close)
                THEN FDiv(FSub(r.resistance, close), FSub(close, r.support))
                ELSE Zero)

\* a BUY just above support, with a risk/reward ratio
C20_Witness ==
    /\ SignalReported
    /\ run.result.signal = "BUY"
    /\ run.result.signal_strength = "MODERATE"
    /\ FLt(run.result.support, run.result.current_price)
    /\ run.result.risk_reward_ratio # Zero

---------------------------------------------------------------------------
(* Claims about the tracker-based back-tests *)

\* a tracker-based back-test was called on the frame
TrackerBacktestCalled ==
    run.pc = "done" /\ run.op \in {"run_scaled_backtest", "aggressive_dca_backtest"}

\* C14: a tracker-based back-test called with len(data) <= lookback returns a
\* result whose tracker has an empty ledger; it raises nothing
C14_ShortDataReturnsEmptyLedger ==
    (TrackerBacktestCalled /\ Len(data) <= run.lookback)
        => /\ "raised" \notin DOMAIN run.outcome
           /\ "tracker" \in DOMAIN run.outcome
           /\ run.outcome.tracker.trades = <<>>

\* what the code does with len(data) <= lookback: IndexError, in every call
C14_ShortDataRaises ==
    (TrackerBacktestCalled /\ Len(data) <= run.lookback)
        => /\ "raised" \in DOMAIN run.outcome
           /\ run.outcome.raised = "IndexError"

\* a back-test on enough bars returns results and a tracker that has traded
C14_TradedOnLongData ==
    /\ TrackerBacktestCalled
    /\ Len(data) > run.lookback
    /\ "tracker" \in DOMAIN run.outcome
    /\ Len(run.outcome.tracker.trades) >= 2

\* run_scaled_backtest has returned its pair (results, tracker)
ScaledReturned ==
    /\ run.pc = "done"
    /\ run.op = "run_scaled_backtest"
    /\ "tracker" \in DOMAIN run.outcome

\* C30: verbose only controls printing: the call with the other value of
\* verbose, on the same data, initial_capital and lookback, returns the same
\* ledger, the same cash and position, and the same results
C30_VerboseOnlyPrints ==
    ScaledReturned
        => run.outcome = run_scaled_backtest(data, run.initial_capital, run.lookback,
                                             ~run.verbose)

\* the loop states of the returned call of run_scaled_backtest: at k, the
\* state before the bar i = k (after the bars start_idx .. k - 1)
ScaledTrace ==
    [k \in run.lookback..Len(data) |->
       scaled_loop([tracker         |-> NewTracker(run.initial_capital),
                    buy_levels_hit  |-> NoLevelHit,
                    sell_levels_hit |-> NoLevelHit],
                   data, k, run.lookback, run.verbose)]

\* the buy level whose branch recorded a BUY at the bar between the loop
\* states before and after, 0 for none: all remaining cash is level 100, and
\* 30% of the cash is level 80 unless that level was marked as hit
BuyLevelBetween(before, after) ==
    IF Len(after.tracker.trades) = Len(before.tracker.trades) THEN 0
    ELSE IF after.tracker.trades[Len(before.tracker.trades) + 1].action # "BUY" THEN 0
    ELSE IF after.tracker.trades[Len(before.tracker.trades) + 1].pct_used = Hundred THEN 100
    ELSE IF before.tracker.position_shares = 0 \/ ~before.buy_levels_hit[80] THEN 80
    ELSE 90

\* C21: in run_scaled_backtest, for either value of verbose, no buy level
\* records a second BUY while the position stays open (two bars of one
\* position cycle never buy at the same level), and a buy flag goes from true
\* to false only at a bar that starts with no position
C21_OneBuyPerLevelPerCycle ==
    ScaledReturned =>
      LET trace == ScaledTrace
          level == [i \in run.lookback..(Len(data) - 1) |->
                      BuyLevelBetween(trace[i], trace[i + 1])]
      IN  /\ \A j, k \in DOMAIN level :
                (/\ j < k
                 /\ level[j] # 0
                 /\ level[k] # 0
                 /\ \A b \in (j + 1)..k : trace[b].tracker.position_shares # 0)
                    => level[j] # level[k]
          /\ \A i \in DOMAIN level :
                (\E l \in {80, 90, 100} :
                    trace[i].buy_levels_hit[l] /\ ~trace[i + 1].buy_levels_hit[l])
                    => trace[i].tracker.position_shares = 0

\* the same property for the calls with verbose = True only
C21_OneBuyPerLevelPerCycle_Verbose ==
    (ScaledReturned /\ ~run.verbose) \/ C21_OneBuyPerLevelPerCycle

\* aggressive_dca_backtest has returned its pair (results, tracker)
DcaReturned ==
    /\ run.pc = "done"
    /\ run.op = "aggressive_dca_backtest"
    /\ "tracker" \in DOMAIN run.outcome

\* the loop states of the returned call of aggressive_dca_backtest: at k, the
\* state before the bar i = k
DcaTrace ==
    [k \in run.lookback..Len(data) |->
       dca_loop([tracker      |-> NewTracker(run.initial_capital),
                 buy_levels   |-> NoBuyLevel,
                 entry_price  |-> None,
                 lowest_price |-> None],
                data, k, run.lookback)]

\* the bars of the returned call that are not skipped by "continue"
DcaProcessed ==
    { i \in run.lookback..(Len(data) - 1) :
        calculate_time_weighted_levels(historical_data(data, i), run.lookback, 5) # None }

\* the flags a bar starts its buy logic with: all false without a position
DcaFlagsAtBar(st) ==
    IF st.tracker.position_shares = 0 THEN NoBuyLevel ELSE st.buy_levels

\* the flags that go from false to true at the bar between two loop states
DcaFired(before, after) ==
    { f \in {"main", "below", "bounce"} :
        ~DcaFlagsAtBar(before)[f] /\ after.buy_levels[f] }

C22_WitnessSecondCycle ==
    /\ DcaReturned
    /\ \E k \in 1..(Len(run.outcome.tracker.trades) - 1) :
          /\ run.outcome.tracker.trades[k].action = "SELL"
          /\ run.outcome.tracker.trades[k + 1].action = "BUY"

\* the bars at which the production strategy finds the close both at or below
\* the buy threshold and at or above the sell threshold
BothThresholdsMet ==
    { i \in strategy.lookback..(Len(data) - 1) :
        \E levels \in {strategy_time_weighted_levels(strategy, historical_data(data, i))} :
           /\ levels # None
           /\ FLe(data[i + 1].close, buy_threshold(strategy, levels.support))
           /\ FLe(sell_threshold(strategy, levels.resistance), data[i + 1].close) }

\* calculate_signals has returned and some bar met both thresholds
C23_WitnessBothThresholds ==
    /\ run.pc = "done"
    /\ run.op = "calculate_signals"
    /\ BothThresholdsMet # {}

\* one of the variants of optimized_scaled.py has returned its pair
VariantReturned ==
    /\ run.pc = "done"
    /\ run.op = "scaled_variant"
    /\ "tracker" \in DOMAIN run.outcome

\* the loop states of the returned call of a variant: at k, the state before
\* the bar i = k
VariantTrace ==
    [k \in run.lookback..Len(data) |->
       variant_loop(run.variant, NewVariantState(run.variant, run.initial_capital),
                    data, k, run.lookback)]

\* the trades a bar appended to the ledger, given the loop states before and
\* after it
TradesOfBar(before, after) ==
    SubSeq(after.tracker.trades, Len(before.tracker.trades) + 1, Len(after.tracker.trades))

\* a bar kept the ledger it found and appended no trade, one trade, or one
\* BUY followed by one SELL
OneBuyThenOneSell(before, after) ==
    /\ Len(after.tracker.trades) >= Len(before.tracker.trades)
    /\ SubSeq(after.tracker.trades, 1, Len(before.tracker.trades)) = before.tracker.trades
    /\ Len(TradesOfBar(before, after)) <= 2
    /\ Len(TradesOfBar(before, after)) = 2
          => /\ TradesOfBar(before, after)[1].action = "BUY"
             /\ TradesOfBar(before, after)[2].action = "SELL"

\* C23: conditions that hold together on one bar are resolved by a fixed
\* priority: calculate_signals of the production strategy gives BUY at every
\* bar whose close meets both thresholds, and a bar of run_scaled_backtest,
\* aggressive_dca_backtest and scaled_v1/v2/v3 records at most one BUY and at
\* most one SELL, the BUY first
C23_FixedPriority ==
    /\ (run.pc = "done" /\ run.op = "calculate_signals")
          => \A i \in BothThresholdsMet : run.signals[i + 1] = "BUY"
    /\ ScaledReturned
          => \A i \in run.lookback..(Len(data) - 1) :
                OneBuyThenOneSell(ScaledTrace[i], ScaledTrace[i + 1])
    /\ DcaReturned
          => \A i \in run.lookback..(Len(data) - 1) :
                OneBuyThenOneSell(DcaTrace[i], DcaTrace[i + 1])
    /\ VariantReturned
          => \A i \in run.lookback..(Len(data) - 1) :
                OneBuyThenOneSell(VariantTrace[i], VariantTrace[i + 1])

\* a returned tracker-based run in which one bar recorded a BUY and a SELL
C23_WitnessBuyAndSellOnOneBar ==
    /\ DcaReturned \/ VariantReturned \/ ScaledReturned
    /\ \E k \in 1..(Len(run.outcome.tracker.trades) - 1) :
          /\ run.outcome.tracker.trades[k].action = "BUY"
          /\ run.outcome.tracker.trades[k + 1].action = "SELL"
          /\ run.outcome.tracker.trades[k].date = run.outcome.tracker.trades[k + 1].date

\* _filter_distributed has returned
FilterCalled == run.pc = "done" /\ run.op = "_filter_distributed"

\* the points of a list are pairwise at least min_distance indices apart
PairwiseApart(points, min_distance) ==
    \A j, k \in 1..Len(points) :
        j < k => Abs(points[j].index - points[k].index) >= min_distance

\* C24: for every ranked input list, the points _filter_distributed returns
\* are pairwise at least min_distance indices apart
C24_ReturnedPairwiseApart ==
    FilterCalled => PairwiseApart(run.result, run.min_distance)

\* the same for the lists with more than num_points entries, which the greedy
\* loop filters
C24_FilteredPairwiseApart ==
    (FilterCalled /\ Len(data) > run.num_points)
        => PairwiseApart(run.result, run.min_distance)

\* the greedy loop dropped a point of a clustered list
C24_WitnessFiltered ==
    /\ FilterCalled
    /\ Len(data) > run.num_points
    /\ ~PairwiseApart(data, run.min_distance)
    /\ Len(run.result) >= 1

\* the attribute a strategy tracks its own entry with: entry_date,
\* entry_price or trailing_stop
TrackingState(s) ==
    IF s.name = "MeanReversion" THEN s.entry_date
    ELSE IF s.name = "Breakout" THEN s.entry_price
    ELSE s.trailing_stop

\* the strategy object of the returned call of run_backtest after the signals
\* of the first k rows were executed
EngineAfter(k) ==
    CHOOSE s \in
      { execute_signals(sig.self, SubSeq(run.rows, 1, k), sig.signals, 1, run.position_size) :
          sig \in {calculate_signals(
                     enter_run_backtest(run.before, run.rows, run.initial_capital),
                     run.rows)} } : TRUE

\* the strategy's recorded entry is that of the open position of the engine
EntryMatchesPosition(s) ==
    /\ s.name = "MeanReversion" => s.entry_date = [day |-> s.position.entry_date]
    /\ s.name = "Breakout" => s.entry_price = s.position.entry_price

\* the tracking state is None when run_backtest returns, the forced close of
\* an open position included
C25_ResetWhenReturned ==
    (BacktestReturned /\ run.rows # <<>>) => TrackingState(strategy) = None

\* the tracking state is None after strategy.initialize(initial_capital)
C25_ResetByInitialize ==
    (BacktestReturned /\ run.rows # <<>>)
        => TrackingState(initialize(run.before, run.initial_capital)) = None

\* during the execution loop the tracking state is None after an executed
\* SELL, and while LONG it is the entry of the BUY that was executed
C25_InStepWithEngine ==
    (BacktestReturned /\ run.rows # <<>>)
        => \A k \in 1..Len(run.rows) :
              /\ (/\ EngineAfter(k).trades # <<>>
                  /\ Last(EngineAfter(k).trades).action = "SELL"
                  /\ Last(EngineAfter(k).trades).date = run.rows[k].date)
                    => TrackingState(EngineAfter(k)) = None
              /\ EngineAfter(k).position # None => EntryMatchesPosition(EngineAfter(k))

\* C25: the tracking state of a strategy is reset whenever the tracked
\* position returns to flat (after every executed SELL, the forced close
\* included, and after initialize), and while the engine is LONG the recorded
\* entry is that of the BUY that was executed
C25_TrackingStateFollowsPosition ==
    /\ C25_ResetWhenReturned
    /\ C25_ResetByInitialize
    /\ C25_InStepWithEngine

---------------------------------------------------------------------------
(* C26: the time-weighted level estimators *)

StrategyLevelsReturned ==
    /\ run.pc = "done"
    /\ run.op = "strategy_levels"

\* the levels of scaled_backtest.calculate_time_weighted_levels for the frame
\* and the arguments of the recorded call
ReferenceLevels == calculate_time_weighted_levels(data, run.lookback, run.min_distance)

\* the weight the estimator of the recorded call gives a point
EstimatorWeight(point) ==
    IF run.estimator = "ImprovedScaled"
    THEN improved_time_weight(data[Len(data)].date, point)
    ELSE time_weight(data[Len(data)].date, point)

SameLevels(ref) ==
    IF ref = None THEN run.result = None
    ELSE /\ run.result # None
         /\ run.result # ZeroDivisionError
         /\ run.result.support = ref.support
         /\ run.result.resistance = ref.resistance

ExtremaOf(ref) ==
    IF ref = None THEN {}
    ELSE { ref.peaks[k] : k \in 1..Len(ref.peaks) }
           \cup { ref.troughs[k] : k \in 1..Len(ref.troughs) }

\* the weights are 1 / (days_ago + 1)
WeightsAsStated(points) ==
    \A p \in points : EstimatorWeight(p) = time_weight(data[Len(data)].date, p)

\* an older point weighs strictly less
WeightsDecreaseWithAge(points) ==
    \A p, q \in points :
        p.date < q.date =>
            /\ EstimatorWeight(p) # ZeroDivisionError
            /\ EstimatorWeight(q) # ZeroDivisionError
            /\ FLt(EstimatorWeight(p), EstimatorWeight(q))

\* the part that holds: the estimators of YINNProductionStrategy and
\* ScaledEntryStrategy return the levels of scaled_backtest's function, and
\* every estimator's weights decrease with age
C26_AgreeExceptImproved ==
    StrategyLevelsReturned =>
        \A ref \in {ReferenceLevels} : \A points \in {ExtremaOf(ref)} :
            /\ run.estimator # "ImprovedScaled" =>
                   (SameLevels(ref) /\ WeightsAsStated(points))
            /\ WeightsDecreaseWithAge(points)

\* the levels of ImprovedScaledStrategy are those of the other estimators
C26_ImprovedSameLevels ==
    (StrategyLevelsReturned /\ run.estimator = "ImprovedScaled") =>
        \A ref \in {ReferenceLevels} : SameLevels(ref)

\* C26: every time-weighted level estimator (scaled_backtest's function and
\* the methods of YINNProductionStrategy, ScaledEntryStrategy and
\* ImprovedScaledStrategy) weights a point by 1 / (days_ago + 1), returns the
\* same support and resistance for the same frame, and gives older points
\* strictly smaller weights
C26_EstimatorsAgree ==
    StrategyLevelsReturned =>
        \A ref \in {ReferenceLevels} : \A points \in {ExtremaOf(ref)} :
            /\ SameLevels(ref)
            /\ WeightsAsStated(points)
            /\ WeightsDecreaseWithAge(points)

\* two estimators were compared on a frame with two peaks of different age
C26_WitnessTwoPeaks ==
    /\ StrategyLevelsReturned
    /\ run.estimator = "ScaledEntry"
    /\ \E ref \in {ReferenceLevels} :
         /\ ref # None
         /\ Len(ref.peaks) >= 2
         /\ ref.peaks[1].price # ref.peaks[2].price

---------------------------------------------------------------------------
(* C27: the arithmetic of the snapshot query *)

SnapshotReturned ==
    /\ run.pc = "done"
    /\ run.op = "get_current_signal"
    /\ "signal" \in DOMAIN run.result

\* a snapshot was computed on levels with resistance = support
ZeroWidthSnapshot ==
    /\ SnapshotReturned
    /\ run.result.range_width = Zero

\* the part that holds: risk_reward_ratio is 0 unless the signal is BUY and
\* the close lies above the support
C27_RiskRewardGuarded ==
    (SnapshotReturned /\ ~ FLt(run.result.support, run.result.current_price)) =>
        run.result.risk_reward_ratio = Zero

\* C27: every division of get_current_signal is guarded: on levels with
\* resistance = support position_in_range_pct is a defined value, not the
\* outcome of a division by zero, as risk_reward_ratio is 0 when
\* close - support <= 0
C27_SnapshotArithmeticGuarded ==
    /\ ZeroWidthSnapshot => run.result.position_in_range_pct # NotFinite
    /\ C27_RiskRewardGuarded

\* a BUY snapshot with the close at or below the support
C27_WitnessRiskRewardZero ==
    /\ SnapshotReturned
    /\ run.result.signal = "BUY"
    /\ ~ FLt(run.result.support, run.result.current_price)

---------------------------------------------------------------------------
(* C28: conservation in the single-position engine *)

\* entry_price * shares of the open position, 0 when FLAT
HeldAtCost(s) ==
    IF s.position # None
    THEN FMul(s.position.entry_price, FromInt(s.position.shares))
    ELSE Zero

EngineInitialized ==
    /\ bt.pc \in {"loop", "done"}
    /\ bt.result # "No data provided"

EngineReturned ==
    /\ bt.pc = "done"
    /\ bt.result = "results"

\* cash + cost of the open position = initial_capital + sum of the pnl
C28_Conserved ==
    EngineInitialized =>
        FAdd(strategy.cash, HeldAtCost(strategy))
          = FAdd(strategy.initial_capital, sum_pnl(completed_trades(strategy.trades)))

\* final_value - initial_capital = total_pnl when run_backtest returns
C28_ReturnIsTotalPnl ==
    EngineReturned =>
        FSub(get_portfolio_value(strategy, bt.close), bt.initial_capital)
          = sum_pnl(completed_trades(strategy.trades))

\* the total_return_pct computed from final_value is the one of the summary
C28_ReturnPctAgree ==
    (EngineReturned /\ completed_trades(strategy.trades) # <<>>) =>
        FMul(FDiv(FSub(get_portfolio_value(strategy, bt.close), bt.initial_capital),
                  bt.initial_capital), Hundred)
          = get_performance_summary(strategy).total_return_pct

\* C28: in every state after initialize, cash + entry_price * shares of the
\* open position (0 when FLAT) = initial_capital + the sum of pnl over the
\* SELL trades; when run_backtest returns, final_value - initial_capital =
\* total_pnl and the two total_return_pct formulas agree
C28_EngineConservation ==
    /\ C28_Conserved
    /\ C28_ReturnIsTotalPnl
    /\ C28_ReturnPctAgree

\* a run returned after at least one SELL
C28_WitnessReturnedWithSell ==
    /\ EngineReturned
    /\ completed_trades(strategy.trades) # <<>>

---------------------------------------------------------------------------
(* C29: conservation and the ledger of ScaledPositionTracker *)

TrackerCalled == tcall.op # "none"

\* the SELL entries of a ledger
sell_trades(trades) == SelectSeq(trades, LAMBDA t : t.action = "SELL")

\* cash + position_cost = initial_capital + sum of the pnl of the SELL trades
C29_Conserved ==
    TrackerCalled =>
        FAdd(tracker.cash, tracker.position_cost)
          = FAdd(tracker.initial_capital, sum_pnl(sell_trades(tracker.trades)))

\* the part that holds: a call that returns a non-zero share count appends
\* exactly one entry to the ledger and keeps the earlier entries, any other
\* call leaves the ledger as it was
C29_LedgerAppendOnly ==
    TrackerCalled =>
        IF tcall.ret # 0
        THEN /\ Len(tracker.trades) = Len(tcall.before.trades) + 1
             /\ SubSeq(tracker.trades, 1, Len(tcall.before.trades)) = tcall.before.trades
             /\ tracker.trades[Len(tracker.trades)].shares = tcall.ret
        ELSE tracker.trades = tcall.before.trades

\* C29: after any sequence of buy and sell calls, cash + position_cost =
\* initial_capital + the sum of pnl over the SELL trades, and the ledger has
\* one entry per call that returned a non-zero share count
C29_TrackerConservation ==
    /\ C29_Conserved
    /\ C29_LedgerAppendOnly

\* a ledger with a BUY and a SELL after calls of which one traded nothing
C29_WitnessLedger ==
    /\ TrackerCalled
    /\ tcall.ret = 0
    /\ sell_trades(tracker.trades) # <<>>
    /\ Len(tracker.trades) < tcall.n

===========
